---- MODULE Spec2Model ----
(***************************************************************************)
(* Model of the scheduling and lifecycle controller of cloud_scheduler     *)
(* (backend/task_manager/executor.py): the job Dispatcher and Watcher with *)
(* the Task state machine, and the Lease Manager, Reaper, VNC workspace    *)
(* path and Pool Reconciler over one task template.                        *)
(*                                                                         *)
(* The specifications share the variables:                                 *)
(*   SpecTask  - Dispatcher, Watcher, the orchestrator's job pods and the  *)
(*               external delete request;                                  *)
(*   SpecLease - lease calls, the Reaper, the Pool Reconciler, the         *)
(*               orchestrator's pool pods and the clock;                   *)
(*   SpecVnc   - lease calls, the Reaper with its VNC loop and VNC         *)
(*               requests over a reconciled pool;                          *)
(*   SpecTrip  - one allocation and its release, with a history of the     *)
(*               pod's label;                                              *)
(*   SpecPass  - passes of the Pool Reconciler over any pool and template. *)
(*   SpecRestart - SpecTask with the process ending in the middle of a     *)
(*               Dispatcher or Watcher step and starting again;            *)
(*   SpecIpc   - the IPC lookup of a user's pod, VNC requests and a pool   *)
(*               that starts cold;                                         *)
(*   SpecSchedule - the template saved with another config, its schedule   *)
(*               and the passes of the Pool Reconciler;                    *)
(*   SpecQueue - the Dispatcher over a queue of several tasks;             *)
(*   SpecOverlap - two workers of the pool running passes of the Pool      *)
(*               Reconciler at the same time;                              *)
(*   SpecGrow  - lease calls over a pool that the Pool Reconciler has to   *)
(*               grow first;                                               *)
(*   SpecSettle - passes of the Pool Reconciler alone, one after another,  *)
(*               until the pool settles.                                   *)
(* Every handler is cut at the points where it talks to the database or to *)
(* the orchestrator, so that the threads of the controller interleave      *)
(* there as they do in the program.                                        *)
(***************************************************************************)
EXTENDS Integers, Sequences, FiniteSets, TLC

VARIABLES
    \* ---- Task side -------------------------------------------------------
    rows,       \* Task ids whose row exists in the database
    task,       \* Task row fields: status, logs, logs_get, exit_code
    confKind,   \* kind of container_config of each task's template
    jobs,       \* tasks whose Job task-exec-<uuid> exists in the orchestrator
    jpod,       \* the pod the selector task-exec=<uuid> lists first
    dq,         \* Dispatcher: rows of its query still to be handled
    wpc,        \* Watcher: position in _actual_work
    wq,         \* Watcher: rows of its current query still to be handled
    werr,       \* Watcher: the last handled row ended in "except ApiException"
    \* ---- Workspace side --------------------------------------------------
    now,        \* round(time.time())
    pods,       \* pool pods of the template, by pod name
    ws,         \* TaskStorage rows, by user
    vnc,        \* TaskVNCPod rows, by user
    deps,       \* users whose VNC Deployment exists
    lease,      \* one get_user_space_pod call per user: locals and position
    reaper,     \* _storage_pod_monitor: locals and position
    recon,      \* _ttl_check: locals and position
    sched,      \* the template's periodic schedule is registered
    settings,   \* the TaskSettings row of the template
    \* ---- History ---------------------------------------------------------
    trip,       \* by user: the pod last allocated and its label before that
    home,       \* by user: a pod was allocated, the initial files were copied
    \* ---- IPC -------------------------------------------------------------
    ipc,        \* exposed_get_user_space_pod, by caller: position and reply
    \* ---- Worker pool ------------------------------------------------------
    recon2,     \* _ttl_check on a second worker of ttl_checker: locals, position
    shrunk      \* history: a pass has had a pod of the pool deleted

taskVars == <<rows, task, confKind, jobs, jpod, dq, wpc, wq, werr>>
leaseVars == <<now, pods, ws, vnc, deps, lease, reaper, recon, sched>>
tmplVars == <<settings, trip, home, ipc, recon2, shrunk>>
vars == <<rows, task, confKind, jobs, jpod, dq, wpc, wq, werr,
          now, pods, ws, vnc, deps, lease, reaper, recon, sched,
          settings, trip, home, ipc, recon2, shrunk>>

(***************************************************************************)
(* Bounds of the model.                                                    *)
(***************************************************************************)
NumTasks == 1
NumUsers == 2
NumVncUsers == 1
NumPods == 2
MaxTime == 1

Tasks == 1..NumTasks
Users == 1..NumUsers
VncUsers == 1..NumVncUsers
PodNames == 1..NumPods

(***************************************************************************)
(* Task statuses (models.TASK) and the watcher's and dispatcher's queries. *)
(***************************************************************************)
SCHEDULED == "SCHEDULED"
WAITING == "WAITING"
PENDING == "PENDING"
RUNNING == "RUNNING"
SUCCEEDED == "SUCCEEDED"
FAILED == "FAILED"
TLE == "TLE"
MLE == "MLE"
DELETING == "DELETING"

TerminalStatuses == {SUCCEEDED, FAILED, TLE, MLE}

\* Task.objects.filter(status=TASK.SCHEDULED)
DispatchQueryBroken == {SCHEDULED, FAILED}
DispatchQuery == {SCHEDULED}

\* Task.objects.filter(status=TASK.DELETING)
DeletingQueryNone == {}
DeletingQuery == {DELETING}

\* Task.objects.filter(Q(WAITING) | Q(RUNNING) | Q(PENDING))
MonitorQuery == {WAITING, RUNNING, PENDING}

\* exit codes the watcher tells apart: 124 (timeout's SIGTERM), 137 (SIGKILL)
ExitTLE == 124
ExitMLE == 137
ExitCodes == {0, 1, ExitTLE, ExitMLE}

\* An optional exit code is <<>> (None) or <<code>>.
NoExit == << >>

LogTLE == "\nTime limit exceeded when executing job."
LogMLE == "\nMemory limit exceeded when executing job."
LogNoStorage == "Failed to get user space storage"
PodLog == "pod log"

NoPod == [phase |-> "None", deleting |-> FALSE, exit |-> NoExit]

NewTask == [status |-> SCHEDULED, logs |-> << >>, logs_get |-> FALSE, exit_code |-> NoExit]

\* rows ordered by create_time: task ids are issued in creation order
RECURSIVE OrderByCreateTime(_)
OrderByCreateTime(S) ==
    IF S = {} THEN << >>
    ELSE LET m == CHOOSE x \in S : \A y \in S : x <= y
         IN  <<m>> \o OrderByCreateTime(S \ {m})

(***************************************************************************)
(* Pure helpers of the Dispatcher and the Watcher.                         *)
(***************************************************************************)
\* config_checker on the parsed config: all keys present, commands a list
config_checker(kind) == kind = "valid"

\* json.loads(container_config) raises ValueError on text that is not JSON
JsonLoads(kind) == kind # "notjson"

\* _job_monitor, the if/elif chain mapping the pod phase to new_status
PhaseStatusNoDeletingCheck(phase, deleting, cur) ==
    IF phase = "Running" THEN RUNNING
    ELSE IF phase = "Succeeded" THEN SUCCEEDED
    ELSE IF phase = "Pending" THEN PENDING
    ELSE IF phase = "Failed" THEN FAILED
    ELSE cur

PhaseStatus(phase, deleting, cur) ==
    IF phase = "Running" THEN RUNNING
    ELSE IF phase = "Succeeded" THEN SUCCEEDED
    ELSE IF phase = "Pending" /\ ~deleting THEN PENDING
    ELSE IF phase = "Failed" THEN FAILED
    ELSE cur

\* _job_monitor, "if exit_code == 124 ... elif exit_code == 137 ..."
ExitStatus(exit, new_status) ==
    IF exit = <<ExitTLE>> THEN TLE
    ELSE IF exit = <<ExitMLE>> THEN MLE
    ELSE new_status

\* the message appended to item.logs by the same branches
ExitLogs(exit, logs) ==
    IF exit = <<ExitTLE>> THEN Append(logs, LogTLE)
    ELSE IF exit = <<ExitMLE>> THEN Append(logs, LogMLE)
    ELSE logs

\* "if exit_code: item.exit_code = exit_code" (None and 0 are falsy)
StoreExit(exit, old) == IF exit # NoExit /\ exit # <<0>> THEN exit ELSE old

\* the rows of a query, as the model instances the loop iterates over
Snapshot(statuses) ==
    LET ids == OrderByCreateTime({t \in rows : task[t].status \in statuses})
    IN  [i \in 1..Len(ids) |-> [id |-> ids[i], row |-> task[ids[i]]]]

(***************************************************************************)
(* Dispatcher: _job_dispatch._actual_work                                  *)
(***************************************************************************)
\* the query of one pass; a pass over no row only sleeps
DispatchBegin ==
    /\ dq = << >>
    /\ Snapshot(DispatchQuery) # << >>
    /\ dq' = Snapshot(DispatchQuery)
    /\ UNCHANGED <<rows, task, confKind, jobs, jpod, wpc, wq, werr>>

\* item.save(force_update=True) of the Dispatcher: writes every field of the
\* instance; on a row that is gone it raises, the handler's own save raises
\* again and the pass ends in the outer "except Exception"
DispatchSave(id, row) ==
    IF id \in rows
    THEN /\ task' = [task EXCEPT ![id] = row]
         /\ dq' = Tail(dq)
    ELSE /\ task' = task
         /\ dq' = << >>

\* the row saved when get_userspace_pvc() returned False
StorageFailureWithoutLogs(item) == [item EXCEPT !.status = FAILED]
StorageFailure(item) ==
    [item EXCEPT !.status = FAILED, !.logs_get = TRUE, !.logs = <<LogNoStorage>>]

\* the body of the loop for one row; pvc is what get_userspace_pvc()
\* returns and api how create_namespaced_job answers
DispatchItemWith(pvc, api) ==
    /\ dq # << >>
    /\ LET id == Head(dq).id
           item == Head(dq).row
       IN  IF ~JsonLoads(confKind[id])
           THEN \* json.loads raises outside the inner try: the pass is aborted
                /\ dq' = << >>
                /\ UNCHANGED <<task, jobs>>
           ELSE IF ~pvc
                THEN \* get_userspace_pvc() returned False
                     /\ DispatchSave(id, StorageFailure(item))
                     /\ UNCHANGED jobs
                ELSE IF ~config_checker(confKind[id])
                THEN \* ValueError: status FAILED, logs untouched
                     /\ DispatchSave(id, [item EXCEPT !.status = FAILED])
                     /\ UNCHANGED jobs
                ELSE IF api = "error" \/ id \in jobs
                THEN \* create_namespaced_job raised ApiException (409 included)
                     /\ dq' = Tail(dq)
                     /\ UNCHANGED <<task, jobs>>
                ELSE /\ jobs' = jobs \cup {id}
                     /\ DispatchSave(id, [item EXCEPT !.status = WAITING])
    /\ UNCHANGED <<rows, confKind, jpod, wpc, wq, werr>>

DispatchItem == \E pvc \in BOOLEAN, api \in {"ok", "error"} : DispatchItemWith(pvc, api)

(***************************************************************************)
(* Watcher: _job_monitor._actual_work                                      *)
(***************************************************************************)
MonitorBegin ==
    /\ wpc = "idle"
    /\ wpc' = "active"
    /\ wq' = Snapshot(MonitorQuery)
    /\ werr' = FALSE
    /\ UNCHANGED <<rows, task, confKind, jobs, jpod, dq>>

\* delete_namespaced_job with propagation Foreground: the Job goes and its
\* pod gets a deletion timestamp
DeleteJob(id) ==
    /\ jobs' = jobs \ {id}
    /\ jpod' = [jpod EXCEPT ![id] =
                   IF @.phase = "None" THEN @ ELSE [@ EXCEPT !.deleting = TRUE]]

\* the row is left as it is: nothing to do, or an ApiException was logged
MonitorSkip(err) ==
    /\ werr' = err
    /\ UNCHANGED <<task, jobs, jpod>>

\* the row saved with a terminal status: the log read_namespaced_pod_log
\* returned (if any), logs_get, the exit code and the status by exit code
HarvestedWithoutLogsGet(item, pod, response, new_status) ==
    [status |-> ExitStatus(pod.exit, new_status),
     logs |-> ExitLogs(pod.exit, IF response # << >> THEN response ELSE item.logs),
     logs_get |-> item.logs_get,
     exit_code |-> StoreExit(pod.exit, item.exit_code)]
Harvested(item, pod, response, new_status) ==
    [status |-> ExitStatus(pod.exit, new_status),
     logs |-> ExitLogs(pod.exit, IF response # << >> THEN response ELSE item.logs),
     logs_get |-> TRUE,
     exit_code |-> StoreExit(pod.exit, item.exit_code)]

\* the body of the first loop for one row; api tells which orchestrator call
\* raises, response is the log of the pod
MonitorItemWith(api, response) ==
    /\ wpc = "active"
    /\ wq # << >>
    /\ wq' = Tail(wq)
    /\ LET id == Head(wq).id
           item == Head(wq).row
           pod == jpod[id]
           new_status == PhaseStatus(pod.phase, pod.deleting, item.status)
       IN  IF api = "list_error" THEN MonitorSkip(TRUE)
           ELSE IF pod.phase = "None" \/ new_status = item.status
           THEN MonitorSkip(FALSE)
           ELSE IF pod.phase \in {"Succeeded", "Failed"}
           THEN IF api \in {"log_error", "delete_error"} \/ id \notin jobs
                THEN \* read_namespaced_pod_log or delete_namespaced_job raised
                     \* (a Job that is gone answers 404)
                     MonitorSkip(TRUE)
                ELSE /\ DeleteJob(id)
                     /\ task' = [task EXCEPT ![id] =
                                    Harvested(item, pod, response, new_status)]
                     /\ werr' = FALSE
           ELSE /\ task' = [task EXCEPT ![id] = [item EXCEPT !.status = new_status]]
                /\ werr' = FALSE
                /\ UNCHANGED <<jobs, jpod>>
    /\ UNCHANGED <<rows, confKind, dq, wpc>>

MonitorItem ==
    \E api \in {"ok", "list_error", "log_error", "delete_error"},
       response \in {<< >>, <<PodLog>>} : MonitorItemWith(api, response)

\* the query of the second loop: tasks in DELETING
MonitorDeletingBegin ==
    /\ wpc = "active"
    /\ wq = << >>
    /\ wpc' = "deleting"
    /\ wq' = Snapshot(DeletingQuery)
    /\ UNCHANGED <<rows, task, confKind, jobs, jpod, dq, werr>>

\* the body of the second loop for one row; api is how
\* delete_namespaced_job answers
MonitorDeleteItemWith(api) ==
    /\ wpc = "deleting"
    /\ wq # << >>
    /\ wq' = Tail(wq)
    /\ LET id == Head(wq).id
       IN  IF api = "error"
           THEN \* an ApiException other than 404: retried on the next pass
                UNCHANGED <<rows, jobs, jpod>>
           ELSE \* deleted, or 404 because the Job is not there: item.delete()
                /\ DeleteJob(id)
                /\ rows' = rows \ {id}
    /\ UNCHANGED <<task, confKind, dq, wpc, werr>>

MonitorDeleteItem == \E api \in {"ok", "error"} : MonitorDeleteItemWith(api)

MonitorEnd ==
    /\ wpc = "deleting"
    /\ wq = << >>
    /\ wpc' = "idle"
    /\ UNCHANGED <<rows, task, confKind, jobs, jpod, dq, wq, werr>>

(***************************************************************************)
(* The orchestrator's side of a Job: its pod, as the selector              *)
(* task-exec=<uuid> shows it to the Watcher.                               *)
(***************************************************************************)
\* the Job controller creates the pod
JobPodCreate(t) ==
    /\ t \in jobs
    /\ jpod[t].phase = "None"
    /\ jpod' = [jpod EXCEPT ![t] = [phase |-> "Pending", deleting |-> FALSE, exit |-> NoExit]]
    /\ UNCHANGED <<rows, task, confKind, jobs, dq, wpc, wq, werr>>

\* the pod is scheduled and its container starts
JobPodRun(t) ==
    /\ jpod[t].phase = "Pending"
    /\ ~jpod[t].deleting
    /\ jpod' = [jpod EXCEPT ![t].phase = "Running"]
    /\ UNCHANGED <<rows, task, confKind, jobs, dq, wpc, wq, werr>>

\* the container exits 0, or exits non-zero, or the pod fails without a
\* terminated container state (the Job's active deadline)
JobPodFinish(t) ==
    /\ jpod[t].phase \in {"Pending", "Running"}
    /\ ~jpod[t].deleting
    /\ \E ph \in {"Succeeded", "Failed"}, ex \in {NoExit} \cup {<<c>> : c \in ExitCodes} :
          /\ ph = "Succeeded" => jpod[t].phase = "Running" /\ ex \in {NoExit, <<0>>}
          /\ ph = "Failed" => ex # <<0>>
          /\ jpod[t].phase = "Pending" => ex = NoExit
          /\ jpod' = [jpod EXCEPT ![t].phase = ph, ![t].exit = ex]
    /\ UNCHANGED <<rows, task, confKind, jobs, dq, wpc, wq, werr>>

\* a pod of a live Job is evicted or deleted (node drain, preemption): it
\* gets a deletion timestamp, and once it is gone the Job controller
\* creates a replacement (JobPodCreate)
JobPodEvict(t) ==
    /\ t \in jobs
    /\ jpod[t].phase \in {"Pending", "Running"}
    /\ ~jpod[t].deleting
    /\ jpod' = [jpod EXCEPT ![t].deleting = TRUE]
    /\ UNCHANGED <<rows, task, confKind, jobs, dq, wpc, wq, werr>>

\* a pod with a deletion timestamp goes away
JobPodGone(t) ==
    /\ jpod[t].phase # "None"
    /\ jpod[t].deleting
    /\ jpod' = [jpod EXCEPT ![t] = NoPod]
    /\ UNCHANGED <<rows, task, confKind, jobs, dq, wpc, wq, werr>>

\* the external request that marks a task for deletion
RequestDelete(t) ==
    /\ t \in rows
    /\ task[t].status # DELETING
    /\ task' = [task EXCEPT ![t].status = DELETING]
    /\ UNCHANGED <<rows, confKind, jobs, jpod, dq, wpc, wq, werr>>


(***************************************************************************)
(* Specification of the Task side.                                         *)
(***************************************************************************)
TaskSideInit ==
    /\ rows = Tasks
    /\ task = [t \in Tasks |-> NewTask]
    /\ confKind \in [Tasks -> {"valid", "invalid", "notjson"}]
    /\ jobs = {}
    /\ jpod = [t \in Tasks |-> NoPod]
    /\ dq = << >>
    /\ wpc = "idle"
    /\ wq = << >>
    /\ werr = FALSE

LeaseSideIdle ==
    /\ now = 0
    /\ pods = << >>
    /\ ws = << >>
    /\ vnc = << >>
    /\ deps = {}
    /\ lease = << >>
    /\ reaper = [queue |-> << >>, pc |-> "next", occ |-> 0, fresh |-> FALSE,
                 err |-> FALSE]
    /\ recon = << >>
    /\ sched = FALSE
    /\ settings = << >>
    /\ trip = << >>
    /\ home = << >>
    /\ ipc = << >>
    /\ recon2 = << >>
    /\ shrunk = FALSE

InitTask == TaskSideInit /\ LeaseSideIdle

NextTask ==
    \/ DispatchBegin /\ UNCHANGED <<leaseVars, tmplVars>>
    \/ DispatchItem /\ UNCHANGED <<leaseVars, tmplVars>>
    \/ MonitorBegin /\ UNCHANGED <<leaseVars, tmplVars>>
    \/ MonitorItem /\ UNCHANGED <<leaseVars, tmplVars>>
    \/ MonitorDeletingBegin /\ UNCHANGED <<leaseVars, tmplVars>>
    \/ MonitorDeleteItem /\ UNCHANGED <<leaseVars, tmplVars>>
    \/ MonitorEnd /\ UNCHANGED <<leaseVars, tmplVars>>
    \/ \E t \in Tasks : JobPodCreate(t) /\ UNCHANGED <<leaseVars, tmplVars>>
    \/ \E t \in Tasks : JobPodRun(t) /\ UNCHANGED <<leaseVars, tmplVars>>
    \/ \E t \in Tasks : JobPodFinish(t) /\ UNCHANGED <<leaseVars, tmplVars>>
    \/ \E t \in Tasks : JobPodEvict(t) /\ UNCHANGED <<leaseVars, tmplVars>>
    \/ \E t \in Tasks : JobPodGone(t) /\ UNCHANGED <<leaseVars, tmplVars>>
    \/ \E t \in Tasks : RequestDelete(t) /\ UNCHANGED <<leaseVars, tmplVars>>

SpecTask == InitTask /\ [][NextTask]_vars


(***************************************************************************)
(* Claims about the Task state machine (checked under SpecTask).           *)
(***************************************************************************)
\* a step of the external requester, which is neither Dispatcher nor Watcher
ExternalStep == \E t \in Tasks : RequestDelete(t)

\* C1: a task whose status is SUCCEEDED, FAILED, TLE or MLE has the same
\* status after every step of the Dispatcher and of the Watcher that leaves
\* its row in the database.
C1_TerminalIsSticky ==
    [][ExternalStep \/
       \A t \in Tasks :
          (t \in rows /\ task[t].status \in TerminalStatuses)
             => (t \in rows' => task'[t].status = task[t].status)]_vars

\* C1 witness: a terminal task whose pod is still listed, with the Watcher's
\* first loop of a pass over
C1_Witness ==
    \E t \in Tasks :
       /\ t \in rows
       /\ task[t].status \in TerminalStatuses
       /\ jpod[t].phase # "None"
       /\ wpc = "deleting"

\* position of a status in SCHEDULED < WAITING < PENDING < RUNNING < terminal
Rank(s) ==
    IF s = SCHEDULED THEN 0
    ELSE IF s = WAITING THEN 1
    ELSE IF s = PENDING THEN 2
    ELSE IF s = RUNNING THEN 3
    ELSE 4

\* C2: no step of the Dispatcher or of the Watcher replaces a task's status
\* by one that is earlier in SCHEDULED < WAITING < PENDING < RUNNING <
\* {SUCCEEDED, FAILED, TLE, MLE}.
C2_NeverMovesBackward ==
    [][ExternalStep \/
       \A t \in Tasks :
          (t \in rows /\ t \in rows' /\ task[t].status # DELETING
              /\ task'[t].status # DELETING)
             => Rank(task'[t].status) >= Rank(task[t].status)]_vars

\* the Watcher handles the row of task t in this step, the task is active
\* in the database and its pod is listed
MonitorStepOn(t) ==
    /\ wpc = "active"
    /\ wq # << >>
    /\ Head(wq).id = t
    /\ wq' = Tail(wq)
    /\ t \in rows
    /\ task[t].status \in {WAITING, PENDING, RUNNING}
    /\ jpod[t].phase # "None"

\* the status C3 gives for a pod, cur being the status before the pass
C3_Expected(pod, cur) ==
    IF pod.phase = "Running" THEN RUNNING
    ELSE IF pod.phase = "Pending" THEN (IF pod.deleting THEN cur ELSE PENDING)
    ELSE IF pod.phase = "Succeeded" THEN SUCCEEDED
    ELSE IF pod.exit = <<124>> THEN TLE
    ELSE IF pod.exit = <<137>> THEN MLE
    ELSE FAILED

\* C3: whenever the Watcher handles an active task whose pod is listed, and
\* no orchestrator call made for the task raises an ApiException, the status
\* after the step is the function of the pod: Running -> RUNNING, Pending ->
\* PENDING unless it has a deletion timestamp (then the status is unchanged),
\* Succeeded -> SUCCEEDED, Failed -> TLE / MLE / FAILED by exit code 124 /
\* 137 / other. A step in which a call raised leaves the row as it was.
C3_StatusIsFunctionOfPod ==
    [][\A t \in Tasks :
          MonitorStepOn(t) =>
             IF werr' THEN task'[t] = task[t]
             ELSE task'[t].status = C3_Expected(jpod[t], task[t].status)]_vars

\* C3 witness: the Watcher has turned a Failed pod with exit code 124 into
\* TLE, with the time-limit message at the end of the logs
C3_Witness ==
    \E t \in Tasks :
       /\ t \in rows
       /\ task[t].status = TLE
       /\ jpod[t].phase = "Failed"
       /\ jpod[t].exit = <<124>>
       /\ task[t].logs # << >>
       /\ task[t].logs[Len(task[t].logs)] = LogTLE
       /\ ~werr


(***************************************************************************)
(* Workspace side: data.                                                   *)
(***************************************************************************)
\* config.USER_SPACE_POD_TIMEOUT, in ticks of the model's clock
USER_SPACE_POD_TIMEOUT == 1

\* the template row the workspace specifications start from
TheTemplate == [exists |-> TRUE, replica |-> 1, max_sharing_users |-> 2,
                config |-> "valid"]

\* setting.max_sharing_users and item.replica
max_sharing_users == settings.max_sharing_users
replica == settings.replica

\* pod_name = '' of a row, and "no pod" in a local variable
NoName == 0

\* a pod name that was never used, and one whose pod is gone (404)
NoPoolPod == [phase |-> "None", deleting |-> FALSE, occupied |-> 0, pool |-> FALSE]
GonePod == [phase |-> "Gone", deleting |-> FALSE, occupied |-> 0, pool |-> FALSE]

\* the pod expand_container creates: labels task=<uuid>, occupied=0
NewPoolPod == [phase |-> "Pending", deleting |-> FALSE, occupied |-> 0, pool |-> TRUE]

Exists(p) == pods[p].phase \notin {"None", "Gone"}

\* list_namespaced_pod(label_selector="task=<uuid>")
Listed == {p \in DOMAIN pods : Exists(p) /\ pods[p].pool}

\* a TaskStorage row that does not exist, and the row get_or_create makes
NoRow == [exists |-> FALSE, pod_name |-> NoName, expire_time |-> 0]
CreatedRow == [exists |-> TRUE, pod_name |-> NoName, expire_time |-> 0]

\* a TaskVNCPod row that does not exist (pod_name and url_path: set or '')
NoVnc == [exists |-> FALSE, pod_name |-> FALSE, url_path |-> FALSE, expire_time |-> 0]

\* round(time.time() + USER_SPACE_POD_TIMEOUT)
Expiry == now + USER_SPACE_POD_TIMEOUT

\* the locals of a call: user_storage.pod_name as read, created, the pod
\* object "available" (its name, its incremented label, whether its
\* resourceVersion is still current), and the value the last call returned
IdleLease == [pc |-> "idle", pod_name |-> NoName, created |-> FALSE,
              avail |-> NoName, occ |-> 0, fresh |-> FALSE, result |-> NoName]

\* a call that has returned
Returned(p) == [IdleLease EXCEPT !.result = p]

\* the Reaper's locals: the rows of the query still to be handled and, once
\* the pod of the first of them was read and found Running, that pod object
\* (its occupied label, whether its resourceVersion is still current); err
\* tells whether the row handled last ended in the warning of an
\* ApiException other than 404
IdleReaper == [queue |-> << >>, pc |-> "next", occ |-> 0, fresh |-> FALSE,
               err |-> FALSE]

\* a user uuid that no UserModel row has, and the callers of the IPC lookup
UnknownUser == 0
IpcCallers == Users \cup {UnknownUser}

\* no IPC call made yet; a call that has returned ret
NoIpc == [pc |-> "idle", reply |-> NoName, done |-> FALSE]
IpcRepliedNone(ret) == [pc |-> "idle", reply |-> NoName, done |-> TRUE]
IpcReplied(ret) == [pc |-> "idle", reply |-> ret, done |-> TRUE]

\* no pod allocated to the user yet, no initial files copied
NoHome == [leased |-> FALSE, copied |-> FALSE]

\* no allocation on record for a user
NoTrip == [pod |-> NoName, before |-> 0, done |-> FALSE]

IdleRecon == [pc |-> "idle", del |-> {}, add |-> 0, clear |-> FALSE]

\* the orchestrator's optimistic concurrency: a pod object read before the
\* pod was written carries an old resourceVersion, and a patch that sends it
\* is refused with 409
Invalidate(ls, changed) ==
    [u \in Users |-> IF ls[u].avail \in changed
                     THEN [ls[u] EXCEPT !.fresh = FALSE, !.occ = 0] ELSE ls[u]]

\* the same for the pod object the Reaper holds
InvalidateReaper(r, changed) ==
    IF r.pc = "patch" /\ Head(r.queue).row.pod_name \in changed
    THEN [r EXCEPT !.fresh = FALSE, !.occ = 0] ELSE r

\* smallest element of a non-empty set of pod names (the list order)
First(S) == CHOOSE x \in S : \A y \in S : x <= y

(***************************************************************************)
(* Lease Manager: get_user_space_pod(uuid, user), one call per user at a   *)
(* time, cut at its database and orchestrator calls.                       *)
(***************************************************************************)
\* TaskStorage.objects.get_or_create(settings, user, defaults pod_name '')
LeaseStart(u) ==
    /\ lease[u].pc = "idle"
    /\ LET row == IF ws[u].exists THEN ws[u] ELSE CreatedRow
       IN  /\ ws' = [ws EXCEPT ![u] = row]
           /\ lease' = [lease EXCEPT ![u] =
                 [IdleLease EXCEPT !.pc = IF row.pod_name # NoName THEN "read" ELSE "list",
                                   !.pod_name = row.pod_name,
                                   !.created = ~ws[u].exists]]
    /\ UNCHANGED <<now, pods, vnc, deps, reaper, recon, sched>>

\* "if pod.status.phase == 'Running' and not deleting" on the row's pod
Reusable(p) == pods[p].phase = "Running" /\ ~pods[p].deleting

\* the row the reuse path saves: the instance as read, with a new TTL
RefreshedRowNoTTL(name) == [exists |-> TRUE, pod_name |-> name, expire_time |-> 0]
RefreshedRow(name) == [exists |-> TRUE, pod_name |-> name, expire_time |-> Expiry]

\* "except ApiException as ex: if ex.status != 404: raise Exception": the
\* answers of read_namespaced_pod that end the call; a pod that is not there
\* answers 404
ReadRaisesAlsoOn404(api, p) == api = "error" \/ ~Exists(p)
ReadRaises(api, p) == api = "error"

\* "if user_storage.pod_name": read the pod; refresh the TTL and return it
\* when it is Running and not terminating; 404 or an unusable pod falls
\* through to allocation; another ApiException ends the call with None
LeaseReadPodWith(u, api) ==
    /\ lease[u].pc = "read"
    /\ LET p == lease[u].pod_name
       IN  IF ReadRaises(api, p)
           THEN /\ lease' = [lease EXCEPT ![u] = Returned(NoName)]
                /\ ws' = ws
           ELSE IF Exists(p) /\ Reusable(p)
           THEN /\ ws' = [ws EXCEPT ![u] = RefreshedRow(p)]
                /\ lease' = [lease EXCEPT ![u] = Returned(p)]
           ELSE /\ lease' = [lease EXCEPT ![u].pc = "list"]
                /\ ws' = ws
    /\ UNCHANGED <<now, pods, vnc, deps, reaper, recon, sched>>

LeaseReadPod(u) == \E api \in {"ok", "error"} : LeaseReadPodWith(u, api)

\* "pod.status.phase == 'Running' and num_in_use < max_sharing_users and
\* not deleting" of the allocation loop
AvailableIgnoringCap(p) ==
    /\ pods[p].phase = "Running"
    /\ ~pods[p].deleting
Available(p) ==
    /\ pods[p].phase = "Running"
    /\ pods[p].occupied < max_sharing_users
    /\ ~pods[p].deleting

\* "str(int(available.metadata.labels['occupied']) + 1)"
IncrementedTwice(n) == n + 2
Incremented(n) == n + 1

\* list the pool and take the first available pod; none: return None
LeaseListWith(u, api) ==
    /\ lease[u].pc = "list"
    /\ LET cands == {p \in Listed : Available(p)}
       IN  IF api = "error" \/ cands = {}
           THEN lease' = [lease EXCEPT ![u] = Returned(NoName)]
           ELSE lease' = [lease EXCEPT ![u].pc = "commit",
                                       ![u].avail = First(cands),
                                       ![u].occ = Incremented(pods[First(cands)].occupied),
                                       ![u].fresh = TRUE]
    /\ UNCHANGED <<now, pods, ws, vnc, deps, reaper, recon, sched>>

LeaseList(u) == \E api \in {"ok", "error"} : LeaseListWith(u, api)

\* the row the allocation saves
LeasedRowNoTTL(p) == [exists |-> TRUE, pod_name |-> p, expire_time |-> 0]
LeasedRow(p) == [exists |-> TRUE, pod_name |-> p, expire_time |-> Expiry]

\* the exec or patch_namespaced_pod raises ApiException: the orchestrator
\* does not serve the call, the pod is gone (404), or the pod object sent
\* carries an old resourceVersion (409)
PatchRefusedUnlessStale(u, api) ==
    api = "error" \/ ~Exists(lease[u].avail)
PatchRefused(u, api) ==
    api = "error" \/ ~Exists(lease[u].avail) \/ ~lease[u].fresh

\* exec the provisioning script, patch the pod with the incremented label
\* and save the row; an ApiException of the exec or of the patch ends the
\* call with None
LeaseCommitWith(u, api) ==
    /\ lease[u].pc = "commit"
    /\ LET p == lease[u].avail
       IN  IF PatchRefused(u, api)
           THEN /\ lease' = [lease EXCEPT ![u] = Returned(NoName)]
                /\ UNCHANGED <<pods, ws, reaper>>
           ELSE /\ pods' = [pods EXCEPT ![p].occupied = lease[u].occ]
                /\ ws' = [ws EXCEPT ![u] = LeasedRow(p)]
                /\ lease' = [Invalidate(lease, {p}) EXCEPT ![u] = Returned(p)]
                /\ reaper' = InvalidateReaper(reaper, {p})
    /\ UNCHANGED <<now, vnc, deps, recon, sched>>

LeaseCommit(u) == \E api \in {"ok", "error"} : LeaseCommitWith(u, api)

(***************************************************************************)
(* Reaper: _storage_pod_monitor._actual_work                               *)
(***************************************************************************)
\* the users of S ordered by the expire_time of their row in tbl
RECURSIVE OrderByExpireTime(_, _)
OrderByExpireTime(S, tbl) ==
    IF S = {} THEN << >>
    ELSE LET m == CHOOSE x \in S : \A y \in S :
                      \/ tbl[x].expire_time < tbl[y].expire_time
                      \/ tbl[x].expire_time = tbl[y].expire_time /\ x <= y
         IN  <<m>> \o OrderByExpireTime(S \ {m}, tbl)

\* <table>.objects.filter(expire_time__gt=0).order_by('expire_time'), as the
\* model instances the loop iterates over
ExpiringRows(tbl) ==
    LET us == OrderByExpireTime({u \in Users : tbl[u].exists /\ tbl[u].expire_time > 0}, tbl)
    IN  [i \in 1..Len(us) |-> [user |-> us[i], row |-> tbl[us[i]]]]

\* "if item.expire_time <= round(time.time())"
Due(row) == row.expire_time <= now

\* "str(max(int(labels['occupied']) - 1, 0))"
DecrementTwice(n) == IF n - 2 > 0 THEN n - 2 ELSE 0
Decrement(n) == IF n - 1 > 0 THEN n - 1 ELSE 0

\* the released row: pod_name = '', expire_time = 0
ReleasedKeepingName(row) == [row EXCEPT !.expire_time = 0]
ReleasedKeepingTTL(row) == [row EXCEPT !.pod_name = NoName]
Released(row) == [row EXCEPT !.pod_name = NoName, !.expire_time = 0]

\* the released TaskVNCPod row
ReleasedVnc(row) == [row EXCEPT !.pod_name = FALSE, !.url_path = FALSE, !.expire_time = 0]

\* the rows of the two queries of a pass, tagged with their table; the
\* second query is evaluated when the first loop is over
WsItems == [i \in 1..Len(ExpiringRows(ws)) |->
               [kind |-> "ws", user |-> ExpiringRows(ws)[i].user,
                row |-> ExpiringRows(ws)[i].row]]
VncItems == [i \in 1..Len(ExpiringRows(vnc)) |->
               [kind |-> "vnc", user |-> ExpiringRows(vnc)[i].user,
                row |-> ExpiringRows(vnc)[i].row]]

\* what is left to handle after the head of the queue
ReaperRest ==
    IF Len(reaper.queue) = 1 /\ Head(reaper.queue).kind = "ws"
    THEN VncItems ELSE Tail(reaper.queue)

\* the head of the queue is done with, with or without a warning
ReaperNext(err) == [IdleReaper EXCEPT !.queue = ReaperRest, !.err = err]

\* the queries of one pass; a pass over no row only sleeps
ReaperBegin ==
    /\ reaper.queue = << >>
    /\ reaper' = [IdleReaper EXCEPT !.queue = IF WsItems # << >> THEN WsItems ELSE VncItems]
    /\ reaper'.queue # << >>
    /\ UNCHANGED <<now, pods, ws, vnc, deps, lease, recon, sched>>

\* the body of the TaskStorage loop for one row, up to the read of the pod
ReaperItem ==
    /\ reaper.queue # << >>
    /\ reaper.pc = "next"
    /\ Head(reaper.queue).kind = "ws"
    /\ LET u == Head(reaper.queue).user
           item == Head(reaper.queue).row
           p == item.pod_name
       IN  \E api \in {"ok", "error"} :
           IF ~Due(item) \/ api = "error"
           THEN \* not due, or an ApiException other than 404 was logged
                /\ reaper' = ReaperNext(Due(item))
                /\ ws' = ws
           ELSE IF p # NoName /\ Exists(p) /\ pods[p].phase = "Running"
           THEN \* the pod object is kept for the exec and the patch
                /\ reaper' = [reaper EXCEPT !.pc = "patch",
                                            !.occ = pods[p].occupied,
                                            !.fresh = TRUE]
                /\ ws' = ws
           ELSE \* pod not Running, or 404: the row is released
                /\ reaper' = ReaperNext(FALSE)
                /\ ws' = [ws EXCEPT ![u] = Released(item)]
    /\ UNCHANGED <<now, pods, vnc, deps, lease, recon, sched>>

\* userdel in the pod, the patch of occupied - 1 and the release of the row;
\* an ApiException other than 404 (409 on a stale pod object) is logged and
\* leaves the row as it is, a 404 releases the row
ReaperPatch ==
    /\ reaper.queue # << >>
    /\ reaper.pc = "patch"
    /\ LET u == Head(reaper.queue).user
           item == Head(reaper.queue).row
           p == item.pod_name
       IN  \E api \in {"ok", "error"} :
           IF api = "error" \/ (Exists(p) /\ ~reaper.fresh)
           THEN /\ reaper' = ReaperNext(TRUE)
                /\ UNCHANGED <<pods, ws, lease>>
           ELSE IF ~Exists(p)
           THEN /\ reaper' = ReaperNext(FALSE)
                /\ ws' = [ws EXCEPT ![u] = Released(item)]
                /\ UNCHANGED <<pods, lease>>
           ELSE /\ reaper' = ReaperNext(FALSE)
                /\ pods' = [pods EXCEPT ![p].occupied = Decrement(reaper.occ)]
                /\ lease' = Invalidate(lease, {p})
                /\ ws' = [ws EXCEPT ![u] = Released(item)]
    /\ UNCHANGED <<now, vnc, deps, recon, sched>>

\* the body of the TaskVNCPod loop for one row
ReaperVncItem ==
    /\ reaper.queue # << >>
    /\ Head(reaper.queue).kind = "vnc"
    /\ LET u == Head(reaper.queue).user
           item == Head(reaper.queue).row
       IN  \E api \in {"ok", "error"} :
           IF ~Due(item) \/ ~item.pod_name \/ api = "error"
           THEN /\ reaper' = ReaperNext(Due(item) /\ item.pod_name)
                /\ UNCHANGED <<vnc, deps>>
           ELSE \* the Deployment is deleted, or is not there (404)
                /\ reaper' = ReaperNext(FALSE)
                /\ deps' = deps \ {u}
                /\ vnc' = [vnc EXCEPT ![u] = ReleasedVnc(item)]
    /\ UNCHANGED <<now, pods, ws, lease, recon, sched>>

(***************************************************************************)
(* VNC workspace request: get_user_vnc_pod(uuid, user)                     *)
(***************************************************************************)
VncRequest(u) ==
    \E readErr \in BOOLEAN, depOk \in BOOLEAN, urlOk \in BOOLEAN :
       LET row0 == IF vnc[u].exists THEN vnc[u]
                   ELSE [exists |-> TRUE, pod_name |-> FALSE, url_path |-> FALSE,
                         expire_time |-> Expiry]
           has_deployment == row0.pod_name /\ (u \in deps \/ readErr)
           needDep == ~has_deployment
           row1 == IF needDep /\ depOk THEN [row0 EXCEPT !.pod_name = TRUE] ELSE row0
           depFailed == needDep /\ ~depOk
           needUrl == ~depFailed /\ ~row1.url_path
           row2 == IF needUrl /\ urlOk THEN [row1 EXCEPT !.url_path = TRUE] ELSE row1
           failed == depFailed \/ (needUrl /\ ~urlOk)
           row3 == IF failed THEN row2 ELSE [row2 EXCEPT !.expire_time = Expiry]
       IN  /\ vnc' = [vnc EXCEPT ![u] = row3]
           /\ deps' = IF needDep /\ depOk THEN deps \cup {u} ELSE deps
           /\ ws' = [ws EXCEPT ![u] = IF ws[u].exists THEN ws[u] ELSE CreatedRow]
    /\ UNCHANGED <<now, pods, lease, reaper, recon, sched>>


(***************************************************************************)
(* Pool Reconciler: _ttl_check(uuid), cut between the pod list (with the   *)
(* counting loop that follows it) and the calls that act on the counts.    *)
(***************************************************************************)
\* the classification of the counting loop
IsBase(p) == \/ pods[p].phase = "Running" /\ ~pods[p].deleting
             \/ pods[p].phase = "Pending"
IsUsable(p) == \/ pods[p].phase = "Running" /\ ~pods[p].deleting
                    /\ pods[p].occupied < max_sharing_users
               \/ pods[p].phase = "Pending"
IsIdle(p) == /\ pods[p].phase = "Running" /\ ~pods[p].deleting
             /\ pods[p].occupied < max_sharing_users
             /\ pods[p].occupied = 0
IsTerminalWithoutUnknown(p) == pods[p].phase \in {"Succeeded", "Failed"}
IsTerminal(p) == pods[p].phase \in {"Succeeded", "Failed", "Unknown"}

\* number of pods expand_container is asked for in one pass: the two "if"
\* statements are both evaluated, on the counts of the loop
ExpandCountElseIf(base_count, usable_count) ==
    IF base_count <= replica THEN replica - base_count
    ELSE IF usable_count < 1 THEN base_count ELSE 0
ExpandCountDoublingFirst(base_count, usable_count) ==
    IF usable_count < 1 THEN base_count
    ELSE IF base_count <= replica THEN replica - base_count ELSE 0
ExpandCount(base_count, usable_count) ==
    (IF base_count <= replica THEN replica - base_count ELSE 0)
    + (IF usable_count < 1 THEN base_count ELSE 0)

\* "base_count > item.replica and len(idle_list) > base_count // 2"
ShrinkNowAnyIdle(base_count, idle_count) ==
    base_count > replica /\ idle_count > 0
ShrinkNowAtReplica(base_count, idle_count) ==
    base_count >= replica /\ idle_count > base_count \div 2
ShrinkNow(base_count, idle_count) ==
    base_count > replica /\ idle_count > base_count \div 2

\* "except TaskSettings.DoesNotExist": delete_all_containers(response) and
\* schedule.clear(uuid)
MissingPlanKeepingSchedule == [pc |-> "act", del |-> Listed, add |-> 0, clear |-> FALSE]
MissingPlan == [pc |-> "act", del |-> Listed, add |-> 0, clear |-> TRUE]

\* what one pass will do, from the pods it listed
Plan ==
    LET base_count == Cardinality({p \in Listed : IsBase(p)})
        usable_count == Cardinality({p \in Listed : IsUsable(p)})
        idle_list == {p \in Listed : IsIdle(p)}
    IN  IF ~settings.exists THEN MissingPlan
        ELSE IF \E p \in Listed : IsTerminal(p)
        THEN [pc |-> "act", del |-> Listed, add |-> 0, clear |-> TRUE]
        ELSE [pc |-> "act",
              del |-> IF ShrinkNow(base_count, Cardinality(idle_list))
                      THEN {First(idle_list)} ELSE {},
              add |-> ExpandCount(base_count, usable_count),
              clear |-> FALSE]

\* a pass fired by the template's schedule, up to the end of the counting
\* loop
ReconListAny ==
    /\ sched
    /\ recon.pc = "idle"
    /\ settings.exists => JsonLoads(settings.config)
    /\ recon' = Plan
    /\ UNCHANGED <<now, pods, ws, vnc, deps, lease, reaper, sched>>

\* the same, left out when the pass finds nothing to do and changes nothing
ReconList ==
    /\ Plan.del # {} \/ Plan.add > 0
    /\ ReconListAny

\* the n smallest unused pod names
RECURSIVE FreshNames(_, _)
FreshNames(n, used) ==
    LET free == {p \in DOMAIN pods : pods[p].phase = "None" /\ p \notin used}
    IN  IF n = 0 \/ free = {} THEN used
        ELSE FreshNames(n - 1, used \cup {First(free)})

\* delete_single_container on a listed pod: the delete request, then the
\* patch that relabels it task=<uuid>_deleted, occupied=0; either call may
\* raise (404 on a pod that is gone)
AfterDelete(pod, outcome) ==
    IF pod.phase \in {"None", "Gone"} \/ outcome = "error" THEN pod
    ELSE IF outcome = "deleted" THEN [pod EXCEPT !.deleting = TRUE]
    ELSE [pod EXCEPT !.deleting = TRUE, !.pool = FALSE, !.occupied = 0]

\* delete_all_containers / expand_container / delete_single_container and
\* schedule.clear, as planned; k of the pods asked for are created (a create
\* call that raises is logged), and out is how each deletion goes
PassActs(pass, k, out) ==
    /\    LET new == FreshNames(k, {})
          IN  /\ pods' = [p \in DOMAIN pods |->
                            IF p \in new THEN NewPoolPod
                            ELSE IF p \in pass.del THEN AfterDelete(pods[p], out[p])
                            ELSE pods[p]]
              /\ lease' = Invalidate(lease, {p \in DOMAIN pods : pods'[p] # pods[p]})
              /\ reaper' = InvalidateReaper(reaper, {p \in DOMAIN pods : pods'[p] # pods[p]})
    /\ sched' = (sched /\ ~pass.clear)

ReconActWith(k, out) ==
    /\ recon.pc = "act"
    /\ PassActs(recon, k, out)
    /\ recon' = IdleRecon
    /\ UNCHANGED <<now, ws, vnc, deps>>

ReconAct ==
    \E k \in 0..recon.add, out \in [recon.del -> {"error", "deleted", "relabelled"}] :
       ReconActWith(k, out)

\* schedule_task_settings(item): with a valid config, schedule.clear(uuid)
\* and a new registration; otherwise a warning
ScheduleTaskSettings(item) ==
    /\ sched' = IF JsonLoads(item.config) /\ config_checker(item.config)
                THEN TRUE ELSE sched
    /\ UNCHANGED <<now, pods, ws, vnc, deps, lease, reaper, recon>>

(***************************************************************************)
(* The orchestrator's side of the pool, and the clock.                     *)
(***************************************************************************)
PoolPodRun(p) ==
    /\ pods[p].phase = "Pending"
    /\ ~pods[p].deleting
    /\ pods' = [pods EXCEPT ![p].phase = "Running"]
    /\ lease' = Invalidate(lease, {p})
    /\ reaper' = InvalidateReaper(reaper, {p})
    /\ UNCHANGED <<now, ws, vnc, deps, recon, sched>>

\* a pod fails for good (evicted, node lost)
PoolPodFail(p) ==
    /\ pods[p].phase \in {"Pending", "Running"}
    /\ pods' = [pods EXCEPT ![p].phase = "Failed"]
    /\ lease' = Invalidate(lease, {p})
    /\ reaper' = InvalidateReaper(reaper, {p})
    /\ UNCHANGED <<now, ws, vnc, deps, recon, sched>>

\* a pod whose deletion was requested goes away
PoolPodGone(p) ==
    /\ Exists(p)
    /\ pods[p].deleting
    /\ pods' = [pods EXCEPT ![p] = GonePod]
    /\ lease' = Invalidate(lease, {p})
    /\ reaper' = InvalidateReaper(reaper, {p})
    /\ UNCHANGED <<now, ws, vnc, deps, recon, sched>>

Tick ==
    /\ now < MaxTime
    /\ now' = now + 1
    /\ UNCHANGED <<pods, ws, vnc, deps, lease, reaper, recon, sched>>

(***************************************************************************)
(* Specification of the workspace side.                                    *)
(***************************************************************************)
LeaseSideInit ==
    /\ now = 0
    /\ pods = [p \in PodNames |-> NoPoolPod]
    /\ ws = [u \in Users |-> NoRow]
    /\ vnc = [u \in Users |-> NoVnc]
    /\ deps = {}
    /\ lease = [u \in Users |-> IdleLease]
    /\ reaper = IdleReaper
    /\ recon = IdleRecon
    /\ sched = TRUE
    /\ settings = TheTemplate
    /\ trip = [u \in Users |-> NoTrip]
    /\ home = [u \in Users |-> NoHome]
    /\ ipc = [c \in IpcCallers |-> NoIpc]
    /\ recon2 = IdleRecon
    /\ shrunk = FALSE

TaskSideIdle ==
    /\ rows = {}
    /\ task = << >>
    /\ confKind = << >>
    /\ jobs = {}
    /\ jpod = << >>
    /\ dq = << >>
    /\ wpc = "idle"
    /\ wq = << >>
    /\ werr = FALSE

InitLease == LeaseSideInit /\ TaskSideIdle

NextLease ==
    \/ \E u \in Users : LeaseStart(u) /\ UNCHANGED <<taskVars, tmplVars>>
    \/ \E u \in Users : LeaseReadPod(u) /\ UNCHANGED <<taskVars, tmplVars>>
    \/ \E u \in Users : LeaseList(u) /\ UNCHANGED <<taskVars, tmplVars>>
    \/ \E u \in Users : LeaseCommit(u) /\ UNCHANGED <<taskVars, tmplVars>>
    \/ ReaperBegin /\ UNCHANGED <<taskVars, tmplVars>>
    \/ ReaperItem /\ UNCHANGED <<taskVars, tmplVars>>
    \/ ReaperPatch /\ UNCHANGED <<taskVars, tmplVars>>
    \/ ReconList /\ UNCHANGED <<taskVars, tmplVars>>
    \/ ReconAct /\ UNCHANGED <<taskVars, tmplVars>>
    \/ \E p \in PodNames : PoolPodRun(p) /\ UNCHANGED <<taskVars, tmplVars>>
    \/ \E p \in PodNames : PoolPodFail(p) /\ UNCHANGED <<taskVars, tmplVars>>
    \/ \E p \in PodNames : PoolPodGone(p) /\ UNCHANGED <<taskVars, tmplVars>>
    \/ Tick /\ UNCHANGED <<taskVars, tmplVars>>

SpecLease == InitLease /\ [][NextLease]_vars

(***************************************************************************)
(* Specification of the workspace side with VNC workspace requests, over a *)
(* pool the Reconciler has brought up: replica pods, Running and unused.   *)
(***************************************************************************)
VncSideInit ==
    /\ now = 0
    /\ pods = [p \in PodNames |->
                 IF p <= TheTemplate.replica
                 THEN [NewPoolPod EXCEPT !.phase = "Running"]
                 ELSE NoPoolPod]
    /\ ws = [u \in Users |-> NoRow]
    /\ vnc = [u \in Users |-> NoVnc]
    /\ deps = {}
    /\ lease = [u \in Users |-> IdleLease]
    /\ reaper = IdleReaper
    /\ recon = IdleRecon
    /\ sched = TRUE
    /\ settings = TheTemplate
    /\ trip = [u \in Users |-> NoTrip]
    /\ home = [u \in Users |-> NoHome]
    /\ ipc = [c \in IpcCallers |-> NoIpc]
    /\ recon2 = IdleRecon
    /\ shrunk = FALSE

InitVnc == VncSideInit /\ TaskSideIdle

NextVnc ==
    \/ \E u \in Users : LeaseStart(u) /\ UNCHANGED <<taskVars, tmplVars>>
    \/ \E u \in Users : LeaseReadPod(u) /\ UNCHANGED <<taskVars, tmplVars>>
    \/ \E u \in Users : LeaseList(u) /\ UNCHANGED <<taskVars, tmplVars>>
    \/ \E u \in Users : LeaseCommit(u) /\ UNCHANGED <<taskVars, tmplVars>>
    \/ \E u \in VncUsers : VncRequest(u) /\ UNCHANGED <<taskVars, tmplVars>>
    \/ ReaperBegin /\ UNCHANGED <<taskVars, tmplVars>>
    \/ ReaperItem /\ UNCHANGED <<taskVars, tmplVars>>
    \/ ReaperPatch /\ UNCHANGED <<taskVars, tmplVars>>
    \/ ReaperVncItem /\ UNCHANGED <<taskVars, tmplVars>>
    \/ Tick /\ UNCHANGED <<taskVars, tmplVars>>

SpecVnc == InitVnc /\ [][NextVnc]_vars

(***************************************************************************)
(* Claims about the Lease Manager and the pool.                            *)
(***************************************************************************)
\* the pods of the pool a lease may be given: labelled, Running, not terminating
Serving(p) == p \in Listed /\ pods[p].phase = "Running" /\ ~pods[p].deleting

\* the users whose Workspace row references pod p
Referencing(p) == {u \in Users : ws[u].exists /\ ws[u].pod_name = p}

\* the step in which the call of u returns pod p
LeaseReturns(u, p) ==
    /\ lease[u].pc # "idle"
    /\ lease'[u].pc = "idle"
    /\ lease'[u].result = p

\* C4: when a call allocates from the pool and returns pod P, the row of the
\* user is (P, now + USER_SPACE_POD_TIMEOUT), the occupied label of P is one
\* greater than the label the call listed, which was still the label of P
\* when it was patched, and the occupied label of no other pod changes.
C4_AllocationEffect ==
    [][\A u \in Users, p \in PodNames :
          lease[u].pc = "commit" /\ LeaseReturns(u, p) =>
             /\ ws'[u].exists
             /\ ws'[u].pod_name = p
             /\ ws'[u].expire_time = now + USER_SPACE_POD_TIMEOUT
             /\ pods'[p].occupied = pods[p].occupied + 1
             /\ lease[u].occ = pods[p].occupied + 1
             /\ \A q \in PodNames \ {p} : pods'[q].occupied = pods[q].occupied]_vars

\* C4 witness: two users were allocated the same pod, which counts both
C4_Witness ==
    \E p \in PodNames :
       /\ Serving(p)
       /\ pods[p].occupied = 2
       /\ \A u \in Users : /\ lease[u].pc = "idle"
                           /\ lease[u].result = p
                           /\ ws[u].pod_name = p
                           /\ ws[u].expire_time = Expiry

\* C5: when the row a call read references a pod that is Running and has no
\* deletion timestamp, and the read of the pod raises no orchestrator error,
\* the call returns that pod, the row is (that pod, now +
\* USER_SPACE_POD_TIMEOUT) and no pod changes, so that a repeated lease is
\* not counted again; a read that raises returns None and changes nothing.
C5_ReuseIsIdempotent ==
    [][\A u \in Users :
          (/\ lease[u].pc = "read"
           /\ lease'[u] # lease[u]
           /\ Exists(lease[u].pod_name)
           /\ pods[lease[u].pod_name].phase = "Running"
           /\ ~pods[lease[u].pod_name].deleting)
          => /\ pods' = pods
             /\ \/ /\ LeaseReturns(u, lease[u].pod_name)
                   /\ ws'[u].exists
                   /\ ws'[u].pod_name = lease[u].pod_name
                   /\ ws'[u].expire_time = now + USER_SPACE_POD_TIMEOUT
                \/ /\ LeaseReturns(u, NoName)
                   /\ ws' = ws]_vars

\* C5 witness: after the clock moved, a user holds a pod under a new TTL and
\* the pod counts the user once
C5_Witness ==
    \E u \in Users, p \in PodNames :
       /\ now > 0
       /\ Serving(p)
       /\ lease[u].pc = "idle"
       /\ lease[u].result = p
       /\ ws[u].pod_name = p
       /\ ws[u].expire_time = Expiry
       /\ Referencing(p) = {u}
       /\ pods[p].occupied = 1

\* C6: the occupied label of every pod is between 0 and max_sharing_users,
\* and a pod a call has selected and not yet patched is, as long as it was
\* not changed since, Running, without deletion timestamp and below
\* max_sharing_users.
C6_OccupiedInRange ==
    /\ \A p \in PodNames : pods[p].occupied \in 0..max_sharing_users
    /\ \A u \in Users :
          lease[u].pc = "commit" /\ lease[u].fresh =>
             /\ lease[u].avail \in Listed
             /\ pods[lease[u].avail].phase = "Running"
             /\ ~pods[lease[u].avail].deleting
             /\ pods[lease[u].avail].occupied < max_sharing_users
             /\ lease[u].occ = pods[lease[u].avail].occupied + 1

\* C6 witness: a pod is full, and a second pod was created for the next user
C6_Witness ==
    \E p \in PodNames, q \in PodNames :
       /\ p # q
       /\ Serving(p)
       /\ pods[p].occupied = max_sharing_users
       /\ Exists(q)
       /\ pods[q].pool

\* C7: the occupied label of a pod of the pool that is Running and not
\* terminating is at least the number of Workspace rows that reference it.
C7_NoUnderCount ==
    \A p \in PodNames :
       Serving(p) => pods[p].occupied >= Cardinality(Referencing(p))

(***************************************************************************)
(* Claims about the Workspace rows and the Reaper.                         *)
(***************************************************************************)
\* C8: no Workspace row has a pod_name together with expire_time = 0.
C8_NoNameWithoutTTL ==
    \A u \in Users :
       ws[u].exists => ~(ws[u].pod_name # NoName /\ ws[u].expire_time = 0)

\* C8 witness: a user whose row was created by a VNC workspace request holds
\* a lease, and the lease of another user was released when its TTL was over
C8_Witness ==
    \E u \in VncUsers, v \in Users, p \in PodNames :
       /\ u # v
       /\ vnc[u].exists
       /\ ws[u].pod_name = p
       /\ ws[u].expire_time > now
       /\ ws[v].exists
       /\ ws[v].pod_name = NoName
       /\ lease[v].result = p
       /\ pods[p].occupied = 1
       /\ now > 0

\* a row that is due in the database: 0 < expire_time <= now
DueNow(row) == row.exists /\ row.expire_time > 0 /\ row.expire_time <= now

\* a step of the Reaper on the row at the head of its queue
ReaperStep ==
    /\ reaper.queue # << >>
    /\ reaper'.queue # reaper.queue \/ reaper'.pc # reaper.pc

\* C9: a step of the Reaper changes a Workspace row or a VNCWorkspace row
\* only if the row is due (0 < expire_time <= now), removes the Deployment
\* only of a due VNCWorkspace row, and changes the occupied label only of a
\* pod that a due Workspace row references.
C9_ReaperActsOnDueRowsOnly ==
    [][ReaperStep =>
          /\ \A u \in Users :
                /\ ws'[u] # ws[u] => DueNow(ws[u])
                /\ vnc'[u] # vnc[u] => DueNow(vnc[u])
                /\ (u \in deps) # (u \in deps') => DueNow(vnc[u])
          /\ \A p \in PodNames :
                pods'[p] # pods[p] =>
                   \E u \in Users : ws[u].pod_name = p /\ DueNow(ws[u])]_vars

\* the step in which the Reaper is done with the Workspace row of u, which
\* its query returned as item
ReaperDone(u, item) ==
    /\ reaper.queue # << >>
    /\ Head(reaper.queue).kind = "ws"
    /\ Head(reaper.queue).user = u
    /\ Head(reaper.queue).row = item
    /\ reaper'.queue # reaper.queue

\* the row of u is released
IsReleased(row) == row.exists /\ row.pod_name = NoName /\ row.expire_time = 0

\* C10 as stated: when the Reaper is done with a due row whose pod it read
\* (the pod was Running and is kept for the patch, or the read ended without
\* a warning), the row is released, and nothing is patched when the pod is
\* not there.
C10_ReleasedWheneverRead ==
    [][\A u \in Users :
          ReaperDone(u, Head(reaper.queue).row) /\ Due(Head(reaper.queue).row)
          /\ (reaper.pc = "patch" \/ ~reaper'.err)
          => /\ IsReleased(ws'[u])
             /\ ~Exists(Head(reaper.queue).row.pod_name) => pods' = pods]_vars

\* C10: when the Reaper is done with a due row, then either a call to the
\* orchestrator raised an ApiException other than 404 (on the read, or on
\* the exec or the patch that follow a successful read, as a 409 on a pod
\* that changed since it was read) and neither the row nor any pod changed,
\* or the row is released; nothing is patched when the pod is not there.
C10_ReleasedUnlessApiError ==
    [][\A u \in Users :
          ReaperDone(u, Head(reaper.queue).row) /\ Due(Head(reaper.queue).row)
          => IF reaper'.err
             THEN ws' = ws /\ pods' = pods
             ELSE /\ IsReleased(ws'[u])
                  /\ ~Exists(Head(reaper.queue).row.pod_name) => pods' = pods]_vars

\* C10 witness: the Reaper has released the row of a user whose pod was
\* gone, and the row of another user whose pod is Running, which it patched
C10_Witness ==
    \E u \in Users, v \in Users, p \in PodNames :
       /\ u # v
       /\ reaper.queue = << >>
       /\ ~reaper.err
       /\ IsReleased(ws[u])
       /\ IsReleased(ws[v])
       /\ lease[u].result # NoName
       /\ ~Exists(lease[u].result)
       /\ lease[v].result = p
       /\ Serving(p)
       /\ pods[p].occupied = 0
       /\ now > 0

\* the Reaper is done with a due row of u without a warning
ReaperProcessed(u) ==
    /\ ReaperDone(u, Head(reaper.queue).row)
    /\ Due(Head(reaper.queue).row)
    /\ ~reaper'.err

\* C11 as stated: when the Reaper has processed a due row, the occupied
\* label of the pod the row referenced is strictly less than before, or the
\* pod is absent.
C11_StrictlyLess ==
    [][\A u \in Users :
          ReaperProcessed(u) =>
             LET p == Head(reaper.queue).row.pod_name
             IN  \/ ~Exists(p)
                 \/ pods'[p].occupied < pods[p].occupied]_vars

\* C11: when the Reaper has processed a due row whose pod is there, the
\* occupied label of the pod is max(before - 1, 0) if the pod was read
\* Running (strictly less unless it was 0 already), and is unchanged if the
\* pod was read in another phase; the label of no other pod changes.
C11_DecrementClampedIfRunning ==
    [][\A u \in Users :
          ReaperProcessed(u) =>
             LET p == Head(reaper.queue).row.pod_name
             IN  /\ \A q \in PodNames \ {p} : pods'[q] = pods[q]
                 /\ Exists(p) =>
                       IF reaper.pc = "patch"
                       THEN /\ reaper.occ = pods[p].occupied
                            /\ pods'[p].occupied =
                                  IF pods[p].occupied > 0
                                  THEN pods[p].occupied - 1 ELSE 0
                       ELSE /\ pods[p].phase # "Running"
                            /\ pods'[p] = pods[p]]_vars

\* C11 witness: of two users on one pod the Reaper has released one, and the
\* pod counts the other
C11_Witness ==
    \E u \in Users, v \in Users, p \in PodNames :
       /\ u # v
       /\ reaper.queue = << >>
       /\ ~reaper.err
       /\ IsReleased(ws[u])
       /\ lease[u].result = p
       /\ ws[v].pod_name = p
       /\ Serving(p)
       /\ pods[p].occupied = 1
       /\ now > 0

(***************************************************************************)
(* Specification of the round trip of a lease: lease calls, the Reaper and *)
(* the clock over a pool the Reconciler has brought up, with the history   *)
(* of the allocations.  trip[u] holds the pod last allocated to u and the  *)
(* occupied label the pod had before; the record is dropped when anything  *)
(* else writes the pod, and is marked done when the Reaper has released    *)
(* the lease.                                                              *)
(***************************************************************************)
\* the records after pod p was written on behalf of user u
TripAfter(u, p, mine) ==
    [v \in Users |-> IF v = u THEN mine
                     ELSE IF trip[v].pod = p THEN NoTrip ELSE trip[v]]

TripLeaseCommit(u) ==
    /\ LeaseCommit(u)
    /\ trip' = IF lease'[u].result # NoName
               THEN TripAfter(u, lease[u].avail,
                              [pod |-> lease[u].avail,
                               before |-> pods[lease[u].avail].occupied,
                               done |-> FALSE])
               ELSE trip

TripReaperPatch ==
    /\ ReaperPatch
    /\ LET u == Head(reaper.queue).user
           p == Head(reaper.queue).row.pod_name
       IN  trip' = IF pods' # pods
                   THEN TripAfter(u, p, IF trip[u].pod = p
                                        THEN [trip[u] EXCEPT !.done = TRUE]
                                        ELSE trip[u])
                   ELSE trip

InitTrip == VncSideInit /\ TaskSideIdle

NextTrip ==
    \/ \E u \in Users : LeaseStart(u) /\ UNCHANGED <<taskVars, tmplVars>>
    \/ \E u \in Users : LeaseReadPod(u) /\ UNCHANGED <<taskVars, tmplVars>>
    \/ \E u \in Users : LeaseList(u) /\ UNCHANGED <<taskVars, tmplVars>>
    \/ \E u \in Users : TripLeaseCommit(u) /\ UNCHANGED <<taskVars, settings, home, ipc, recon2, shrunk>>
    \/ ReaperBegin /\ UNCHANGED <<taskVars, tmplVars>>
    \/ ReaperItem /\ UNCHANGED <<taskVars, tmplVars>>
    \/ TripReaperPatch /\ UNCHANGED <<taskVars, settings, home, ipc, recon2, shrunk>>
    \/ Tick /\ UNCHANGED <<taskVars, tmplVars>>

SpecTrip == InitTrip /\ [][NextTrip]_vars

\* C12: when a call allocated pod P to a user, nothing else wrote P since,
\* and the Reaper, the TTL being over, reads P Running and processes the row
\* of the user without an orchestrator error, then the occupied label of P
\* is again what it was before the allocation and the row is released.
C12_RoundTrip ==
    [][\A u \in Users :
          (/\ ReaperProcessed(u)
           /\ reaper.pc = "patch"
           /\ trip[u].pod # NoName
           /\ trip[u].pod = Head(reaper.queue).row.pod_name
           /\ ~trip[u].done)
          => /\ pods'[trip[u].pod].occupied = trip[u].before
             /\ pods[trip[u].pod].occupied = trip[u].before + 1
             /\ IsReleased(ws'[u])]_vars

\* C12 witness: a user was allocated a pod that counted another user, and
\* the Reaper has released the lease: the pod counts one user again
C12_Witness ==
    \E u \in Users :
       /\ trip[u].done
       /\ trip[u].before = 1
       /\ pods[trip[u].pod].occupied = 1
       /\ pods[trip[u].pod].phase = "Running"
       /\ IsReleased(ws[u])
       /\ reaper.queue = << >>

\* C13: when every Workspace row is released and no lease call is in
\* progress, every pod of the pool that is Running has occupied = 0.
C13_OverCountsCorrected ==
    (/\ \A u \in Users : ws[u].exists => IsReleased(ws[u])
     /\ \A u \in Users : lease[u].pc = "idle")
    => \A p \in Listed : pods[p].phase = "Running" => pods[p].occupied = 0

\* ==========================================================================
\* Pool Reconciler passes over any pool: SpecPass
\* ==========================================================================

\* the pool has at most NumPassPods pod names; replica ranges over
\* 0..MaxReplica and max_sharing_users over 1..MaxSharing
NumPassPods == 4
MaxReplica == 2
MaxSharing == 2

\* the TaskSettings rows a pass may find, and the case "DoesNotExist"
PassSettings ==
    {[exists |-> TRUE, replica |-> r, max_sharing_users |-> m, config |-> "valid"] :
        r \in 0..MaxReplica, m \in 1..MaxSharing}
    \cup {[exists |-> FALSE, replica |-> 0, max_sharing_users |-> MaxSharing,
            config |-> "valid"]}

\* the pods list_namespaced_pod may return for the selector task=<uuid>:
\* every phase the counting loop tells apart
PassPodStates(m) ==
    {NewPoolPod}
    \cup {[phase |-> "Running", deleting |-> FALSE, occupied |-> o, pool |-> TRUE] :
             o \in 0..m}
    \cup {[phase |-> "Running", deleting |-> TRUE, occupied |-> 0, pool |-> TRUE]}
    \cup {[phase |-> ph, deleting |-> FALSE, occupied |-> 0, pool |-> TRUE] :
             ph \in {"Succeeded", "Failed", "Unknown"}}

PassSideInit ==
    /\ now = 0
    /\ settings \in PassSettings
    /\ \E n \in 0..NumPassPods :
          pods \in [1..NumPassPods ->
                      PassPodStates(settings.max_sharing_users) \cup {NoPoolPod}]
          /\ \A p \in 1..NumPassPods : (pods[p] = NoPoolPod) <=> (p > n)
    /\ ws = [u \in Users |-> NoRow]
    /\ vnc = [u \in Users |-> NoVnc]
    /\ deps = {}
    /\ lease = [u \in Users |-> IdleLease]
    /\ reaper = IdleReaper
    /\ recon = IdleRecon
    /\ sched = TRUE
    /\ trip = [u \in Users |-> NoTrip]
    /\ home = [u \in Users |-> NoHome]
    /\ ipc = [c \in IpcCallers |-> NoIpc]
    /\ recon2 = IdleRecon
    /\ shrunk = FALSE

InitPass == PassSideInit /\ TaskSideIdle

\* a pass is followed as long as the pod names of the model are enough for
\* the pods it asks for
PassList ==
    /\ Plan.add <= Cardinality({p \in DOMAIN pods : pods[p].phase = "None"})
    /\ ReconListAny

NextPass ==
    \/ PassList /\ UNCHANGED <<taskVars, tmplVars>>
    \/ ReconAct /\ UNCHANGED <<taskVars, tmplVars>>

SpecPass == InitPass /\ [][NextPass]_vars

\* what a pass counts, said over the pods it lists
HasTerminal == \E p \in Listed : pods[p].phase \in {"Succeeded", "Failed", "Unknown"}
BaseCount ==
    Cardinality({p \in Listed : \/ pods[p].phase = "Pending"
                                \/ pods[p].phase = "Running" /\ ~pods[p].deleting})
UsableCount ==
    Cardinality({p \in Listed :
        \/ pods[p].phase = "Pending"
        \/ /\ pods[p].phase = "Running" /\ ~pods[p].deleting
           /\ pods[p].occupied < settings.max_sharing_users})
IdlePods ==
    {p \in Listed : /\ pods[p].phase = "Running" /\ ~pods[p].deleting
                    /\ pods[p].occupied = 0}

\* the pods a step creates, and the pods it asks the orchestrator to delete
\* (a request that succeeds sets the deletion timestamp)
Created == {p \in DOMAIN pods : pods[p].phase = "None" /\ pods'[p].phase # "None"}
DeleteOutcomes(p) ==
    {pods[p], [pods[p] EXCEPT !.deleting = TRUE],
     [pods[p] EXCEPT !.deleting = TRUE, !.pool = FALSE, !.occupied = 0]}

\* the two steps of a pass: the listing with the counting loop, and the
\* calls that follow it
ListStep == recon.pc = "idle" /\ recon'.pc = "act"
ActStep == recon.pc = "act" /\ recon'.pc = "idle"

\* C14: a pass that lists a pod in phase Succeeded, Failed or Unknown asks
\* for the deletion of every pod it listed, cancels the schedule of the
\* template and creates no pod.
C14_TerminalPurge ==
    [][/\ (ListStep /\ HasTerminal)
            => recon'.del = Listed /\ recon'.clear /\ recon'.add = 0
       /\ (ActStep /\ HasTerminal)
            => /\ recon.del = Listed
               /\ \A p \in Listed : pods'[p] \in DeleteOutcomes(p)
               /\ ~sched'
               /\ Created = {}]_vars

\* a purge has happened: the schedule is cancelled, and a pod in phase
\* Unknown and a Running pod of an existing template have been relabelled
C14_Witness ==
    /\ settings.exists
    /\ ~sched
    /\ \E p \in DOMAIN pods : pods[p].phase = "Unknown" /\ ~pods[p].pool /\ pods[p].deleting
    /\ \E p \in DOMAIN pods : pods[p].phase = "Running" /\ ~pods[p].pool /\ pods[p].deleting

\* the pods in the pre-state other than the ones a step creates are left as
\* they were
OthersUntouched == \A p \in DOMAIN pods : pods[p].phase # "None" => pods'[p] = pods[p]

\* every call of expand_container's loop succeeds
AllCreated == \E out \in [recon.del -> {"error", "deleted", "relabelled"}] :
                 ReconActWith(recon.add, out)

Bootstrap == settings.exists /\ ~HasTerminal /\ BaseCount <= settings.replica

\* C15 as stated: a pass that sees no terminal pod and has base <= replica
\* asks for exactly replica - base new pods and takes no other expand or
\* shrink step.
C15_OnlyBootstrap ==
    [][(ListStep /\ Bootstrap)
          => recon'.add = settings.replica - BaseCount /\ recon'.del = {}]_vars

\* C15: a pass that sees no terminal pod and has base <= replica asks for
\* replica - base new pods and, when it counted no usable pod, for base more;
\* the pods it creates are labelled task=<uuid> and occupied=0, it deletes
\* and relabels nothing and keeps the schedule; from an empty pool with
\* replica 2 it creates 2 pods.
C15_BootstrapAndDoubling ==
    [][/\ (ListStep /\ Bootstrap)
            => /\ recon'.add = (settings.replica - BaseCount)
                               + (IF UsableCount < 1 THEN BaseCount ELSE 0)
               /\ recon'.del = {}
               /\ ~recon'.clear
               /\ (Listed = {} /\ settings.replica = 2) => recon'.add = 2
       /\ (ActStep /\ Bootstrap)
            => /\ \A p \in Created : pods'[p] = NewPoolPod
               /\ Cardinality(Created) <= recon.add
               /\ AllCreated => Cardinality(Created) = recon.add
               /\ OthersUntouched
               /\ sched' = sched]_vars

\* a pass over one Running pod at capacity, with replica 2, has asked for
\* two pods: one to reach replica and one for the doubling
C15_Witness ==
    /\ recon.pc = "act"
    /\ settings.exists /\ settings.replica = 2
    /\ BaseCount = 1 /\ UsableCount = 0 /\ ~HasTerminal
    /\ recon.add = 2

Exhausted == settings.exists /\ ~HasTerminal /\ UsableCount < 1 /\ BaseCount >= 1

\* the spec's burst: replica 1, max_sharing_users 1, one Running pod leased
BurstPool ==
    /\ settings = [exists |-> TRUE, replica |-> 1, max_sharing_users |-> 1,
                   config |-> "valid"]
    /\ Listed = {1}
    /\ pods[1] = [phase |-> "Running", deleting |-> FALSE, occupied |-> 1, pool |-> TRUE]

\* C16 as stated: a pass that sees no terminal pod and no usable pod while
\* base >= 1 asks for base pods, so that the pool doubles.
C16_Doubles ==
    [][/\ (ListStep /\ Exhausted) => recon'.add = BaseCount
       /\ (ActStep /\ Exhausted /\ AllCreated) => BaseCount' = 2 * BaseCount]_vars

\* C16: a pass that sees no terminal pod and no usable pod while base >= 1
\* asks for base pods on top of the replica - base pods of the bootstrap rule
\* and deletes nothing; when the create calls succeed base grows by that
\* number, which doubles it exactly when base >= replica; in the spec's
\* burst the pool has 2 pods after the pass.
C16_DoublesOnTopOfBootstrap ==
    [][/\ (ListStep /\ Exhausted)
            => /\ recon'.add = BaseCount + (IF BaseCount <= settings.replica
                                            THEN settings.replica - BaseCount ELSE 0)
               /\ recon'.del = {}
               /\ ~recon'.clear
       /\ (ActStep /\ Exhausted /\ AllCreated)
            => /\ BaseCount' = BaseCount + recon.add
               /\ (BaseCount >= settings.replica) <=> (BaseCount' = 2 * BaseCount)
               /\ BurstPool => Cardinality(Listed') = 2]_vars

\* the burst, between the listing and the creation of the second pod
C16_Witness ==
    /\ recon.pc = "act"
    /\ BurstPool
    /\ recon.add = 1

Regular == settings.exists /\ ~HasTerminal

\* the surplus of idle pods: base > replica and more idle pods than base / 2
IdleSurplus == BaseCount > settings.replica /\ 2 * Cardinality(IdlePods) > BaseCount

\* C17: a pass that sees no terminal pod asks for the deletion of a pod
\* exactly when base > replica and the idle pods are more than base / 2; it
\* then asks for one pod, which is Running with occupied = 0 and no deletion
\* timestamp, and the calls that follow touch no other listed pod; with
\* replica 1 and 4 idle Running pods one pod is deleted.
C17_ShrinkOneIdle ==
    [][/\ (ListStep /\ Regular)
            => /\ (recon'.del # {}) <=> IdleSurplus
               /\ recon'.del # {} => \E p \in IdlePods : recon'.del = {p}
               /\ (settings.replica = 1 /\ Cardinality(Listed) = 4 /\ IdlePods = Listed)
                     => Cardinality(recon'.del) = 1
       /\ (ActStep /\ Regular)
            => /\ Cardinality(recon.del) <= 1
               /\ \A p \in DOMAIN pods :
                     (pods[p].phase # "None" /\ pods'[p] # pods[p])
                        => p \in recon.del /\ p \in IdlePods
                           /\ pods'[p] \in DeleteOutcomes(p)]_vars

\* after a shrink of the spec's pool of 4 idle pods with replica 1: one pod
\* is terminating and relabelled, three are left, the schedule is kept
C17_Witness ==
    /\ sched /\ recon.pc = "idle"
    /\ settings.exists /\ settings.replica = 1
    /\ Cardinality({p \in DOMAIN pods : pods[p].phase = "Running" /\ pods[p].deleting
                                         /\ ~pods[p].pool}) = 1
    /\ Cardinality(IdlePods) = 3 /\ Cardinality(Listed) = 3

\* C18: after the calls of a pass that saw no terminal pod, found the
\* template row and had every pod it asked for created, base (Running pods
\* without deletion timestamp plus Pending pods) is at least replica; in
\* particular after a pass that asked for the deletion of an idle pod.
C18_BaseAtLeastReplica ==
    [][/\ (ActStep /\ Regular /\ AllCreated) => BaseCount' >= settings.replica
       /\ (ActStep /\ Regular /\ recon.del # {})
            => BaseCount' >= settings.replica /\ BaseCount' >= BaseCount - 1]_vars

\* a shrink has taken a pool of 3 down to replica = 2: one pod is terminating
\* and relabelled, and the schedule is live
C18_Witness ==
    /\ sched /\ recon.pc = "idle"
    /\ settings.exists /\ settings.replica = 2
    /\ BaseCount = 2
    /\ \E p \in DOMAIN pods : pods[p].phase = "Running" /\ pods[p].deleting /\ ~pods[p].pool

\* C19: a pass that does not find the template row asks for the deletion of
\* every pod the selector listed, cancels the schedule of the template and
\* creates no pod.
C19_MissingTemplatePurge ==
    [][/\ (ListStep /\ ~settings.exists)
            => recon'.del = Listed /\ recon'.clear /\ recon'.add = 0
       /\ (ActStep /\ ~settings.exists)
            => /\ recon.del = Listed
               /\ \A p \in Listed : pods'[p] \in DeleteOutcomes(p)
               /\ ~sched'
               /\ Created = {}]_vars

\* the pool of a deleted template after the pass: no pod answers the
\* selector any more, two healthy pods have been relabelled, and the
\* schedule is cancelled
C19_Witness ==
    /\ ~settings.exists
    /\ ~sched
    /\ Listed = {}
    /\ Cardinality({p \in DOMAIN pods : /\ pods[p].phase \in {"Running", "Pending"}
                                         /\ pods[p].deleting /\ ~pods[p].pool}) >= 2
    /\ ~\E p \in DOMAIN pods : pods[p].phase \in {"Succeeded", "Failed", "Unknown"}

\* ==========================================================================
\* Claims on the Dispatcher's Job (SpecTask)
\* ==========================================================================

\* the Job task-exec-<t> is created in this step
JobCreated(t) == t \in jobs' /\ t \notin jobs

\* C20: a task goes from SCHEDULED to WAITING only in a step that creates its
\* Job; a Job is created only for a task whose row is SCHEDULED at that
\* moment; and every task in WAITING, PENDING or RUNNING has the Job
\* task-exec-<uuid>, the one the Watcher looks up and deletes.
C20_JobOnlyForScheduled ==
    /\ [][\A t \in Tasks :
            /\ (t \in rows /\ t \in rows' /\ task[t].status = SCHEDULED
                  /\ task'[t].status = WAITING) => JobCreated(t)
            /\ JobCreated(t) => t \in rows /\ task[t].status = SCHEDULED]_vars
    /\ [](\A t \in rows : task[t].status \in {WAITING, PENDING, RUNNING} => t \in jobs)

\* the Dispatcher handles the row of task t in this step, and the task is
\* SCHEDULED in the database
DispatchStepOn(t) ==
    /\ dq # << >>
    /\ Head(dq).id = t
    /\ dq' # dq
    /\ t \in rows
    /\ task[t].status = SCHEDULED

\* C21: the Dispatcher step that handles a SCHEDULED task whose template
\* config is invalid or is not JSON stores FAILED for it and creates no Job.
C21_InvalidConfigFails ==
    [][\A t \in Tasks :
          (DispatchStepOn(t) /\ confKind[t] # "valid")
             => task'[t].status = FAILED /\ jobs' = jobs]_vars

\* C22: a Dispatcher step that handles a SCHEDULED task and finds that the
\* user-space volume claim cannot be read stores FAILED, the logs "Failed to
\* get user space storage" and logs_get = true for it, and creates no Job.
C22_NoStorageFails ==
    [][\A t \in Tasks : \A api \in {"ok", "error"} :
          (DispatchStepOn(t) /\ JsonLoads(confKind[t]) /\ DispatchItemWith(FALSE, api))
             => /\ task'[t].status = FAILED
                /\ task'[t].logs = <<"Failed to get user space storage">>
                /\ task'[t].logs_get
                /\ jobs' = jobs]_vars

\* a task with a valid config has failed for want of the volume claim, and
\* has no Job
C22_Witness ==
    \E t \in Tasks :
       /\ t \in rows
       /\ confKind[t] = "valid"
       /\ task[t].status = FAILED
       /\ task[t].logs = <<"Failed to get user space storage">>
       /\ task[t].logs_get
       /\ t \notin jobs
       /\ jpod[t].phase = "None"

\* ==========================================================================
\* The controller is stopped and started again: SpecRestart
\* ==========================================================================

\* the threads of a new process start from the top of their loops
FreshThreads ==
    /\ dq' = << >>
    /\ wpc' = "idle"
    /\ wq' = << >>
    /\ werr' = FALSE

\* the process ends after create_namespaced_job has returned and before
\* item.save: the Job exists and the row is as it was
DispatchKilled ==
    /\ dq # << >>
    /\ LET id == Head(dq).id
       IN  /\ JsonLoads(confKind[id])
           /\ config_checker(confKind[id])
           /\ id \notin jobs
           /\ jobs' = jobs \cup {id}
    /\ FreshThreads
    /\ UNCHANGED <<rows, task, confKind, jpod>>

\* the process ends after delete_namespaced_job has returned and before
\* item.save of the terminal status
MonitorKilled ==
    /\ wpc = "active"
    /\ wq # << >>
    /\ LET id == Head(wq).id
           item == Head(wq).row
           pod == jpod[id]
       IN  /\ pod.phase \in {"Succeeded", "Failed"}
           /\ PhaseStatus(pod.phase, pod.deleting, item.status) # item.status
           /\ id \in jobs
           /\ DeleteJob(id)
    /\ FreshThreads
    /\ UNCHANGED <<rows, task, confKind>>

NextRestart ==
    \/ NextTask
    \/ DispatchKilled /\ UNCHANGED <<leaseVars, tmplVars>>
    \/ MonitorKilled /\ UNCHANGED <<leaseVars, tmplVars>>

SpecRestart == InitTask /\ [][NextRestart]_vars

\* C23: a Dispatcher step whose create_namespaced_job is answered 409,
\* because the Job task-exec-<uuid> exists already, stores WAITING for the
\* task.
C23_ConflictIsSuccess ==
    [][\A t \in Tasks :
          (DispatchStepOn(t) /\ confKind[t] = "valid" /\ t \in jobs
              /\ DispatchItemWith(TRUE, "ok"))
             => task'[t].status = WAITING]_vars

\* the Watcher's first loop handles the row of task t in this step
WatcherStepOn(t) ==
    /\ wpc = "active"
    /\ wq # << >>
    /\ Head(wq).id = t
    /\ wq' = Tail(wq)

\* C24: a Watcher step that stores a terminal status for a task stores
\* logs_get = true and the log of the pod in the same write, and the Job of
\* the task is deleted by then; a step in which the log read or the Job
\* deletion raises leaves the row as it was, in a status the next pass
\* queries.
C24_HarvestWithStatus ==
    [][\A t \in Tasks :
          WatcherStepOn(t) =>
             /\ (task'[t].status \in TerminalStatuses
                    /\ task[t].status \notin TerminalStatuses)
                  => /\ task'[t].logs_get
                     /\ t \in jobs /\ t \notin jobs'
                     /\ \A response \in {<<"pod log">>} :
                           MonitorItemWith("ok", response)
                              => SubSeq(task'[t].logs, 1, 1) = response
             /\ \A api \in {"log_error", "delete_error"},
                   response \in {<< >>, <<"pod log">>} :
                   (jpod[t].phase \in {"Succeeded", "Failed"}
                       /\ MonitorItemWith(api, response))
                     => /\ task'[t] = task[t]
                        /\ jobs' = jobs
                        /\ Head(wq).row.status \in MonitorQuery]_vars

\* a terminal status stored together with the pod's log and logs_get, the
\* Job being gone and its pod terminating
C24_Witness ==
    \E t \in Tasks :
       /\ t \in rows
       /\ task[t].status = SUCCEEDED
       /\ task[t].logs = <<"pod log">>
       /\ task[t].logs_get
       /\ t \notin jobs
       /\ jpod[t].phase = "Succeeded" /\ jpod[t].deleting

\* the Watcher's second loop handles the row of task t in this step
DeleteStepOn(t) ==
    /\ wpc = "deleting"
    /\ wq # << >>
    /\ Head(wq).id = t
    /\ wq' = Tail(wq)

\* C25: the second query of a Watcher pass returns every row that is in
\* DELETING; the step that handles such a row removes the row and the Job
\* when delete_namespaced_job succeeds or answers 404, and leaves the row as
\* it is, to be queried again, when the call raises another error; a pass
\* ends only when every row of the query was handled.
C25_DeletingRowsGo ==
    [][/\ (wpc = "active" /\ wpc' = "deleting")
            => \A t \in rows :
                  task[t].status = DELETING => \E i \in 1..Len(wq') : wq'[i].id = t
       /\ \A t \in Tasks :
             DeleteStepOn(t) =>
                /\ MonitorDeleteItemWith("ok") => t \notin rows' /\ t \notin jobs'
                /\ MonitorDeleteItemWith("error")
                     => rows' = rows /\ task'[t] = task[t] /\ jobs' = jobs
       /\ (wpc = "deleting" /\ wpc' = "idle") => wq = << >>]_vars

\* the row of a task that was asked to be deleted while it had a Job is
\* gone, the Job is gone and its pod is terminating, at the end of the
\* second loop
C25_Witness ==
    \E t \in Tasks :
       /\ t \notin rows
       /\ t \notin jobs
       /\ jpod[t].phase = "Running" /\ jpod[t].deleting
       /\ wpc = "deleting" /\ wq = << >>

\* ==========================================================================
\* IPC lookups, with the history of the users' homes: SpecIpc
\* ==========================================================================

\* RpcService.exposed_get_user_space_pod with a uuid that
\* UserModel.objects.get does not find: None
IpcUnknown ==
    /\ ipc' = [ipc EXCEPT ![UnknownUser] = IpcReplied(NoName)]
    /\ UNCHANGED <<leaseVars, settings, trip, home, recon2, shrunk>>

\* the call returns the name of the pod the lease returned, or None
IpcThen(u) ==
    ipc' = IF lease'[u].pc = "idle"
           THEN [ipc EXCEPT ![u] = IpcReplied(lease'[u].result)]
           ELSE ipc

\* with a known user: executor.get_user_space_pod(uuid, user), recreate and
\* purge left at their defaults
IpcStart(u) ==
    /\ ipc[u].pc = "idle"
    /\ LeaseStart(u)
    /\ ipc' = [ipc EXCEPT ![u] = [NoIpc EXCEPT !.pc = "call"]]
    /\ UNCHANGED <<settings, trip, home, recon2, shrunk>>

IpcReadPod(u) ==
    /\ ipc[u].pc = "call"
    /\ LeaseReadPod(u)
    /\ IpcThen(u)
    /\ UNCHANGED <<settings, trip, home, recon2, shrunk>>

IpcList(u) ==
    /\ ipc[u].pc = "call"
    /\ LeaseList(u)
    /\ IpcThen(u)
    /\ UNCHANGED <<settings, trip, home, recon2, shrunk>>

\* "if created: _recreate_space(...) elif recreate: _recreate_space(...)"
\* after the provisioning exec, before the patch: a call that allocates has
\* copied the initial files when created is set; a call that ends in an
\* ApiException may have
IpcCommit(u) ==
    /\ ipc[u].pc = "call"
    /\ LeaseCommit(u)
    /\ IpcThen(u)
    /\ \E reached \in BOOLEAN :
          home' = IF lease'[u].result # NoName
                  THEN [home EXCEPT ![u] = [leased |-> TRUE,
                                            copied |-> @.copied \/ lease[u].created]]
                  ELSE [home EXCEPT ![u].copied = @ \/ (reached /\ lease[u].created)]
    /\ UNCHANGED <<settings, trip, recon2, shrunk>>

\* a pool as the Reconciler leaves it on a cold start: replica pods, Pending
IpcSideInit ==
    /\ now = 0
    /\ pods = [p \in PodNames |->
                 IF p <= TheTemplate.replica THEN NewPoolPod ELSE NoPoolPod]
    /\ ws = [u \in Users |-> NoRow]
    /\ vnc = [u \in Users |-> NoVnc]
    /\ deps = {}
    /\ lease = [u \in Users |-> IdleLease]
    /\ reaper = IdleReaper
    /\ recon = IdleRecon
    /\ sched = TRUE
    /\ settings = TheTemplate
    /\ trip = [u \in Users |-> NoTrip]
    /\ home = [u \in Users |-> NoHome]
    /\ ipc = [c \in IpcCallers |-> NoIpc]
    /\ recon2 = IdleRecon
    /\ shrunk = FALSE

InitIpc == IpcSideInit /\ TaskSideIdle

NextIpc ==
    \/ IpcUnknown /\ UNCHANGED taskVars
    \/ \E u \in Users : IpcStart(u) /\ UNCHANGED taskVars
    \/ \E u \in Users : IpcReadPod(u) /\ UNCHANGED taskVars
    \/ \E u \in Users : IpcList(u) /\ UNCHANGED taskVars
    \/ \E u \in Users : IpcCommit(u) /\ UNCHANGED taskVars
    \/ \E u \in VncUsers : VncRequest(u) /\ UNCHANGED <<taskVars, tmplVars>>
    \/ \E p \in PodNames : PoolPodRun(p) /\ UNCHANGED <<taskVars, tmplVars>>

SpecIpc == InitIpc /\ [][NextIpc]_vars

(***************************************************************************)
(* The schedule of the template while its row is saved again with another *)
(* config: SpecSchedule.                                                    *)
(***************************************************************************)
ConfigKinds == {"valid", "invalid", "notjson"}

\* the template row saved with a container_config of the given kind, and
\* its schedule rebuilt by schedule_task_settings
TemplateSaved(kind) ==
    /\ settings.exists
    /\ settings.config # kind
    /\ settings' = [settings EXCEPT !.config = kind]
    /\ ScheduleTaskSettings(settings')
    /\ UNCHANGED <<trip, home, ipc, recon2, shrunk>>

\* dispatch() has gone over the templates once: the schedule is there when
\* the config was valid
ScheduleSideInit ==
    /\ now = 0
    /\ \E s \in PassSettings, kind \in ConfigKinds :
          /\ s.exists
          /\ settings = [s EXCEPT !.config = kind]
          /\ sched = (JsonLoads(kind) /\ config_checker(kind))
    /\ \E n \in 0..NumPods :
          pods \in [PodNames ->
                      PassPodStates(settings.max_sharing_users) \cup {NoPoolPod}]
          /\ \A p \in PodNames : (pods[p] = NoPoolPod) <=> (p > n)
    /\ ws = [u \in Users |-> NoRow]
    /\ vnc = [u \in Users |-> NoVnc]
    /\ deps = {}
    /\ lease = [u \in Users |-> IdleLease]
    /\ reaper = IdleReaper
    /\ recon = IdleRecon
    /\ trip = [u \in Users |-> NoTrip]
    /\ home = [u \in Users |-> NoHome]
    /\ ipc = [c \in IpcCallers |-> NoIpc]
    /\ recon2 = IdleRecon
    /\ shrunk = FALSE

InitSchedule == ScheduleSideInit /\ TaskSideIdle

NextSchedule ==
    \/ \E kind \in ConfigKinds : TemplateSaved(kind) /\ UNCHANGED taskVars
    \/ PassList /\ UNCHANGED <<taskVars, tmplVars>>
    \/ ReconAct /\ UNCHANGED <<taskVars, tmplVars>>

SpecSchedule == InitSchedule /\ [][NextSchedule]_vars

\* ==========================================================================
\* Claims on the VNC rows, the IPC lookup, the schedule and the first lease
\* ==========================================================================

\* the step in which the Reaper is done with the VNCWorkspace row of u
ReaperVncDone(u) ==
    /\ reaper.queue # << >>
    /\ Head(reaper.queue).kind = "vnc"
    /\ Head(reaper.queue).user = u
    /\ reaper'.queue # reaper.queue

\* C26: when the Reaper is done with a due VNCWorkspace row and no call
\* raised an error other than 404, the row has pod_name = "", url_path = ""
\* and expire_time = 0.
C26_VncRowReleased ==
    [][\A u \in Users :
          (ReaperVncDone(u) /\ Due(Head(reaper.queue).row) /\ DueNow(vnc[u])
              /\ ~reaper'.err)
             => /\ ~vnc'[u].pod_name
                /\ ~vnc'[u].url_path
                /\ vnc'[u].expire_time = 0]_vars

\* the rows and the pods
Stored == <<ws, vnc, deps, pods>>

\* C27: an IPC lookup with an unknown user uuid replies nil and changes no
\* row and no pod; a lookup with a known user replies the name of the pod
\* the lease call returned, or nil when it returned none, and the lease call
\* copies the initial files only when it created the Workspace row (recreate
\* is not set).
C27_IpcLookup ==
    [][/\ ipc'[UnknownUser] # ipc[UnknownUser]
            => /\ ipc'[UnknownUser].reply = NoName
               /\ ipc'[UnknownUser].done
               /\ Stored' = Stored
       /\ \A u \in Users :
             /\ (ipc[u].pc = "call" /\ ipc'[u].pc = "idle")
                  => /\ ipc'[u].done
                     /\ lease'[u].pc = "idle"
                     /\ ipc'[u].reply = lease'[u].result
                     /\ ipc'[u].reply # NoName => ws'[u].pod_name = ipc'[u].reply
             /\ (~home[u].copied /\ home'[u].copied) => lease[u].created]_vars

\* the unknown caller was answered while a known user holds a pod that an
\* IPC lookup returned
C27_Witness ==
    /\ ipc[UnknownUser].done
    /\ \E u \in Users :
          /\ ipc[u].done /\ ipc[u].reply # NoName
          /\ ws[u].pod_name = ipc[u].reply
          /\ pods[ipc[u].reply].occupied >= 1

\* C28: when schedule_task_settings is applied to the template saved with a
\* config that is invalid or not JSON, no schedule is live for its uuid
\* afterwards, also when one was registered earlier; applied to a valid
\* config, the schedule is live
C28_ScheduleFollowsConfig ==
    [][\A kind \in ConfigKinds :
          TemplateSaved(kind) => (sched' <=> kind = "valid")]_vars

\* C29: a user who holds a pod allocated by a lease call has had the initial
\* files of the template copied into the home directory, whether or not
\* earlier calls returned none and whether or not a VNC request stored the
\* TaskStorage row first
C29_FirstAllocationCopies ==
    \A u \in Users : home[u].leased => home[u].copied

\* C30: a Watcher step on a task whose pod is Succeeded or Failed, whose Job
\* is already gone (delete_namespaced_job answers 404) and in which nothing
\* else fails, stores a terminal status for the task
C30_GoneJobStillTerminal ==
    [][\A t \in Tasks :
          (/\ WatcherStepOn(t)
           /\ t \in rows
           /\ Head(wq).row.status \in MonitorQuery
           /\ jpod[t].phase \in {"Succeeded", "Failed"}
           /\ t \notin jobs
           /\ \E response \in {<< >>, <<PodLog>>} : MonitorItemWith("ok", response))
             => task'[t].status \in TerminalStatuses]_vars

\* ==========================================================================
\* Claims on failure messages, the lease against errors and the other
\* threads, and the passes of the Pool Reconciler over time
\* ==========================================================================

\* C31: a Dispatcher step that stores FAILED for a task leaves in its logs a
\* message naming the cause: "Failed to get user space storage" when the
\* volume claim could not be read, "Invalid config for TaskSettings" when
\* the template config is invalid
C31_FailedNamesCause ==
    [][\A t \in Tasks :
          (DispatchStepOn(t) /\ task'[t].status = FAILED)
             => \/ task'[t].logs = <<"Failed to get user space storage">>
                \/ /\ ~config_checker(confKind[t])
                   /\ task'[t].logs = <<"Invalid config for TaskSettings">>]_vars

\* C32: a lease call whose Workspace row names a pod that is not there
\* (read answers 404) goes on to the allocation, and takes an available pod
\* of the pool when there is one; a call whose read fails with another
\* error returns none and leaves the Workspace rows and the pods as they were
C32_ReadNotFoundOrError ==
    [][\A u \in Users :
          /\ (lease[u].pc = "read" /\ lease'[u] # lease[u])
                => /\ (~Exists(lease[u].pod_name) /\ LeaseReadPodWith(u, "ok"))
                        => /\ lease'[u].pc = "list"
                           /\ ws' = ws /\ pods' = pods
                   /\ LeaseReadPodWith(u, "error")
                        => /\ lease'[u].pc = "idle"
                           /\ lease'[u].result = NoName
                           /\ ws' = ws /\ pods' = pods
          /\ (/\ lease[u].pc = "list"
              /\ lease[u].pod_name # NoName
              /\ lease'[u] # lease[u]
              /\ \E p \in Listed : Available(p)
              /\ LeaseListWith(u, "ok"))
                => /\ lease'[u].pc = "commit"
                   /\ lease'[u].avail \in Listed
                   /\ Available(lease'[u].avail)]_vars

\* a call is about to read the pod its row names, that pod is gone and
\* another pod of the pool is available
C32_Witness ==
    \E u \in Users :
       /\ lease[u].pc = "read"
       /\ ws[u].pod_name = lease[u].pod_name
       /\ ~Exists(lease[u].pod_name)
       /\ \E p \in Listed : Available(p)

(***************************************************************************)
(* The Dispatcher over a queue of several SCHEDULED tasks, with an         *)
(* orchestrator that serves every call: SpecQueue.                         *)
(***************************************************************************)
NumQueued == 4
Queued == 1..NumQueued

QueueSideInit ==
    /\ rows = Queued
    /\ task = [t \in Queued |-> NewTask]
    /\ confKind \in [Queued -> {"valid", "invalid", "notjson"}]
    /\ jobs = {}
    /\ jpod = [t \in Queued |-> NoPod]
    /\ dq = << >>
    /\ wpc = "idle"
    /\ wq = << >>
    /\ werr = FALSE

InitQueue == QueueSideInit /\ LeaseSideIdle

\* the volume claim is readable and create_namespaced_job is accepted
DispatchItemServed == DispatchItemWith(TRUE, "ok")

NextQueue ==
    \/ DispatchBegin /\ UNCHANGED <<leaseVars, tmplVars>>
    \/ DispatchItemServed /\ UNCHANGED <<leaseVars, tmplVars>>

\* the Dispatcher thread runs _actual_work in "while True"
SpecQueue ==
    /\ InitQueue
    /\ [][NextQueue]_vars
    /\ WF_vars(DispatchBegin /\ UNCHANGED <<leaseVars, tmplVars>>)
    /\ WF_vars(DispatchItemServed /\ UNCHANGED <<leaseVars, tmplVars>>)

\* C33: with an orchestrator that accepts every Job, every SCHEDULED task
\* with a valid config is moved to WAITING, whatever the configs of the
\* tasks created before it are
C33_DispatchLiveness ==
    \A t \in Queued :
       (t \in rows /\ task[t].status = SCHEDULED /\ confKind[t] = "valid")
          ~> (task[t].status = WAITING)

\* C34: a step of the Reaper on the Workspace row of a user whose row, as it
\* is in the database, holds a lease that is not due (a pod_name with
\* expire_time > now, written by a lease call after the Reaper's query)
\* leaves that row and the occupied label of its pod as they are
C34_LeaseSurvivesReaper ==
    [][\A u \in Users :
          (/\ ReaperStep
           /\ Head(reaper.queue).kind = "ws"
           /\ Head(reaper.queue).user = u
           /\ ws[u].pod_name # NoName
           /\ ws[u].expire_time > now
           /\ lease[u].pc = "idle"
           /\ lease[u].result = ws[u].pod_name)
             => /\ ws'[u] = ws[u]
                /\ pods'[ws[u].pod_name] = pods[ws[u].pod_name]]_vars

\* C35: a task that is DELETING in the database stays DELETING for as long
\* as its row is there: no step of the Dispatcher or of the Watcher stores
\* another status over it
C35_DeletingIsKept ==
    [][\A t \in Tasks :
          (t \in rows /\ t \in rows' /\ task[t].status = DELETING)
             => task'[t].status = DELETING]_vars

\* C36: a pod whose deletion the shrink step of a pass requests has
\* occupied = 0 and is referenced by no Workspace row at that moment
C36_ShrinkTakesIdlePod ==
    [][(ActStep /\ ~recon.clear)
          => \A p \in recon.del :
                (Exists(p) /\ ~pods[p].deleting /\ pods'[p].deleting)
                   => /\ pods[p].occupied = 0
                      /\ Referencing(p) = {}]_vars

(***************************************************************************)
(* Two workers of ttl_checker run _ttl_check for the template at the same *)
(* time, from an empty pool: SpecOverlap.                                  *)
(***************************************************************************)
OverlapSideInit ==
    /\ now = 0
    /\ settings \in {s \in PassSettings : s.exists}
    /\ pods = [p \in 1..NumPassPods |-> NoPoolPod]
    /\ ws = [u \in Users |-> NoRow]
    /\ vnc = [u \in Users |-> NoVnc]
    /\ deps = {}
    /\ lease = [u \in Users |-> IdleLease]
    /\ reaper = IdleReaper
    /\ recon = IdleRecon
    /\ sched = TRUE
    /\ trip = [u \in Users |-> NoTrip]
    /\ home = [u \in Users |-> NoHome]
    /\ ipc = [c \in IpcCallers |-> NoIpc]
    /\ recon2 = IdleRecon
    /\ shrunk = FALSE

InitOverlap == OverlapSideInit /\ TaskSideIdle

\* the pod names of the model are enough for what both workers ask for
NamesLeftFor(other) ==
    Plan.add + other.add <= Cardinality({p \in DOMAIN pods : pods[p].phase = "None"})

\* the pass of the first worker
OverlapFirstList ==
    /\ NamesLeftFor(recon2)
    /\ ReconListAny
    /\ UNCHANGED <<taskVars, tmplVars>>

\* _run_job submits the next firing of the schedule to ttl_checker, and a
\* second worker starts _ttl_check while the first pass is still running
OverlapList ==
    /\ sched
    /\ recon2.pc = "idle"
    /\ settings.exists => JsonLoads(settings.config)
    /\ NamesLeftFor(recon)
    /\ recon2' = Plan
    /\ UNCHANGED <<taskVars, leaseVars, settings, trip, home, ipc, shrunk>>

OverlapActWith(k, out) ==
    /\ recon2.pc = "act"
    /\ PassActs(recon2, k, out)
    /\ recon2' = IdleRecon
    /\ UNCHANGED <<now, ws, vnc, deps, recon>>
    /\ UNCHANGED <<taskVars, settings, trip, home, ipc, shrunk>>

OverlapAct ==
    \E k \in 0..recon2.add, out \in [recon2.del -> {"error", "deleted", "relabelled"}] :
       OverlapActWith(k, out)

NextOverlap ==
    \/ OverlapFirstList
    \/ ReconAct /\ UNCHANGED <<taskVars, tmplVars>>
    \/ OverlapList
    \/ OverlapAct
    \/ \E p \in 1..NumPassPods : PoolPodRun(p) /\ UNCHANGED <<taskVars, tmplVars>>

SpecOverlap == InitOverlap /\ [][NextOverlap]_vars

\* C37: starting from an empty pool and without leases, the passes of the
\* two workers together bring up no more pods than the passes of one worker
\* would: at most replica pods
C37_NoDoubleBootstrap ==
    Cardinality({p \in DOMAIN pods : Exists(p)}) <= settings.replica

\* C38: a lease call whose exec or label patch is refused (an error of the
\* orchestrator, or a version conflict on a pod object that is no longer
\* current) returns none and leaves every Workspace row and every pod as it
\* was
C38_FailedPatchLeavesNoLease ==
    [][\A u \in Users :
          (/\ lease[u].pc = "commit"
           /\ lease'[u].pc = "idle"
           /\ \/ LeaseCommitWith(u, "error")
              \/ ~lease[u].fresh /\ LeaseCommitWith(u, "ok"))
             => /\ lease'[u].result = NoName
                /\ ws' = ws
                /\ pods' = pods]_vars

\* a call has run the copy of the initial files and was refused at the
\* patch: it returned none, the user holds no pod and no label counts one
C38_Witness ==
    \E u \in Users :
       /\ home[u].copied /\ ~home[u].leased
       /\ lease[u].pc = "idle"
       /\ lease[u].result = NoName
       /\ ipc[u].done /\ ipc[u].reply = NoName
       /\ ws[u].exists /\ ws[u].pod_name = NoName /\ ws[u].expire_time = 0
       /\ \E p \in Listed : Available(p)
       /\ \A p \in Listed : pods[p].occupied = 0

(***************************************************************************)
(* Users who call the lease again and again, a Pool Reconciler whose pods  *)
(* are all created and started, and an orchestrator that serves every     *)
(* call, over any valid template and an empty pool: SpecGrow.              *)
(***************************************************************************)
InitGrow == OverlapSideInit /\ TaskSideIdle

\* every create_namespaced_pod of the pass succeeds
GrowAct == \E out \in [recon.del -> {"error", "deleted", "relabelled"}] :
              ReconActWith(recon.add, out)

GrowLeaseStart == \E u \in Users : LeaseStart(u)
GrowLeaseRead == \E u \in Users : LeaseReadPodWith(u, "ok")
GrowLeaseList == \E u \in Users : LeaseListWith(u, "ok")
GrowLeaseCommit == \E u \in Users : LeaseCommitWith(u, "ok")
GrowPodRun == \E p \in 1..NumPassPods : PoolPodRun(p)

NextGrow ==
    \/ GrowLeaseStart /\ UNCHANGED <<taskVars, tmplVars>>
    \/ GrowLeaseRead /\ UNCHANGED <<taskVars, tmplVars>>
    \/ GrowLeaseList /\ UNCHANGED <<taskVars, tmplVars>>
    \/ GrowLeaseCommit /\ UNCHANGED <<taskVars, tmplVars>>
    \/ PassList /\ UNCHANGED <<taskVars, tmplVars>>
    \/ GrowAct /\ UNCHANGED <<taskVars, tmplVars>>
    \/ GrowPodRun /\ UNCHANGED <<taskVars, tmplVars>>

\* the schedule keeps firing, the workers and the callers keep running, and
\* every Pending pod is started
SpecGrow ==
    /\ InitGrow
    /\ [][NextGrow]_vars
    /\ \A u \in Users :
          /\ WF_vars(LeaseStart(u) /\ UNCHANGED <<taskVars, tmplVars>>)
          /\ WF_vars(LeaseReadPodWith(u, "ok") /\ UNCHANGED <<taskVars, tmplVars>>)
          /\ WF_vars(LeaseListWith(u, "ok") /\ UNCHANGED <<taskVars, tmplVars>>)
          /\ WF_vars(LeaseCommitWith(u, "ok") /\ UNCHANGED <<taskVars, tmplVars>>)
    /\ WF_vars(PassList /\ UNCHANGED <<taskVars, tmplVars>>)
    /\ WF_vars(GrowAct /\ UNCHANGED <<taskVars, tmplVars>>)
    /\ \A p \in 1..NumPassPods :
          WF_vars(PoolPodRun(p) /\ UNCHANGED <<taskVars, tmplVars>>)

\* C39: with a live schedule, a user whose lease call has returned none
\* is returned a pod by a later call, whatever the replica >= 0 and
\* max_sharing_users >= 1 of the template are
C39_LeaseLiveness ==
    \A u \in Users :
       (sched /\ ws[u].exists /\ lease[u].pc = "idle" /\ lease[u].result = NoName)
          ~> (lease[u].pc = "idle" /\ lease[u].result # NoName)

(***************************************************************************)
(* Passes of the Pool Reconciler one after the other over a pool that no   *)
(* lease call touches and that holds no terminal pod: SpecSettle.          *)
(***************************************************************************)
\* pod names enough for a pool of NumPassPods pods to be doubled, or brought
\* up to replica and doubled
SettleNames == 1..(2 * (NumPassPods + MaxReplica))

\* the states of a pod that is not terminal
SettlePodStates(m) ==
    {s \in PassPodStates(m) : s.phase \notin {"Succeeded", "Failed", "Unknown"}}

SettleSideInit ==
    /\ now = 0
    /\ settings \in {s \in PassSettings : s.exists}
    /\ \E n \in 0..NumPassPods :
          \E listed \in [1..n -> SettlePodStates(settings.max_sharing_users)] :
             pods = [p \in SettleNames |-> IF p <= n THEN listed[p] ELSE NoPoolPod]
    /\ ws = [u \in Users |-> NoRow]
    /\ vnc = [u \in Users |-> NoVnc]
    /\ deps = {}
    /\ lease = [u \in Users |-> IdleLease]
    /\ reaper = IdleReaper
    /\ recon = IdleRecon
    /\ sched = TRUE
    /\ trip = [u \in Users |-> NoTrip]
    /\ home = [u \in Users |-> NoHome]
    /\ ipc = [c \in IpcCallers |-> NoIpc]
    /\ recon2 = IdleRecon
    /\ shrunk = FALSE

InitSettle == SettleSideInit /\ TaskSideIdle

\* the calls of a pass, with the record of a deletion that went through
SettleActWith(k, out) ==
    /\ ReconActWith(k, out)
    /\ shrunk' = (shrunk \/ \E p \in recon.del : pods'[p].deleting /\ ~pods[p].deleting)
    /\ UNCHANGED <<taskVars, settings, trip, home, ipc, recon2>>

SettleAct ==
    \E k \in 0..recon.add, out \in [recon.del -> {"error", "deleted", "relabelled"}] :
       SettleActWith(k, out)

\* the same when the orchestrator serves every call of the pass
SettleActServed ==
    \E out \in [recon.del -> {"deleted", "relabelled"}] : SettleActWith(recon.add, out)

NextSettle ==
    \/ PassList /\ UNCHANGED <<taskVars, tmplVars>>
    \/ SettleAct
    \/ \E p \in SettleNames : PoolPodRun(p) /\ UNCHANGED <<taskVars, tmplVars>>

\* the schedule keeps firing, the orchestrator serves the calls of a pass
\* again and again, and every Pending pod is started
SpecSettle ==
    /\ InitSettle
    /\ [][NextSettle]_vars
    /\ WF_vars(PassList /\ UNCHANGED <<taskVars, tmplVars>>)
    /\ SF_vars(SettleActServed)
    /\ \A p \in SettleNames : WF_vars(PoolPodRun(p) /\ UNCHANGED <<taskVars, tmplVars>>)

\* C40: without lease calls and terminal pods, a pass that comes after a
\* pass that had a pod deleted asks for no new pod, and the passes reach a
\* pool with base >= replica, for good, on which a pass asks for no new pod
\* and for no deletion
C40_NoOscillation ==
    /\ [][(ListStep /\ Regular /\ shrunk) => recon'.add = 0]_vars
    /\ <>[](/\ Regular
            /\ Plan.add = 0 /\ Plan.del = {}
            /\ BaseCount >= settings.replica)

\* after a deletion the passes have come to rest on a pool that still has
\* pods
C40_Witness ==
    /\ shrunk
    /\ recon.pc = "idle"
    /\ Plan.add = 0 /\ Plan.del = {}
    /\ BaseCount >= settings.replica
    /\ BaseCount > 0
    /\ \E p \in DOMAIN pods : pods[p].deleting

====
